---- MODULE Spec2Model ----
(***************************************************************************)
(* Cloudflare -> registry synchronisation glue (chittyos/cli).            *)
(*                                                                         *)
(*   Spec       the webhook listener (python/webhook_listener.py): the    *)
(*              signed webhook endpoint and its background tasks.         *)
(*   SpecManual the listener's manual-sync endpoint and the background    *)
(*              sync threads it starts.                                   *)
(*   SpecFetch  CloudflareFetcher._paginated_fetch (lib/cloudflare_       *)
(*              fetcher.py), one call against a paging provider.          *)
(*   SpecAll    CloudflareFetcher.get_all_resources, one call.            *)
(*   SpecRegistry  the write operations of RegistryUpdater (lib/registry_ *)
(*              updater.py), one call against an answering registry.      *)
(*   SpecSync   sync_all_resources (python/sync_all.py), one run over the *)
(*              files an earlier run may have left, and the listener's    *)
(*              /status endpoint reading the snapshot file.               *)
(*   SpecHealth two runs of sync_all_resources side by side, given the   *)
(*              same arguments and answers, one with a healthy registry   *)
(*              probe and one with any probe outcome.                     *)
(*   SpecSecret CloudflareFetcher._get_secret (lib/cloudflare_fetcher.py),*)
(*              one lookup.                                               *)
(*   SpecTwice  RegistryUpdater.sync_resources called twice with one list *)
(*              against a registry that applies a full sync as a replace. *)
(*   SpecDeploy deploy_with_full_integration (chittyos-cloudflare-mcp/    *)
(*              server.py), one call against answering services.          *)
(*   SpecPool   NeonDatabase (chittyos-openai-gpt/api/main.py) called by  *)
(*              concurrent coroutines.                                    *)
(***************************************************************************)
EXTENDS Integers, Sequences, FiniteSets, TLC

VARIABLES
    \* ---- webhook listener ------------------------------------------------
    secret,       \* WEBHOOK_SECRET, read once at import
    apiKey,       \* REGISTRY_API_KEY, read once at import
    tasks,        \* background threads started by cloudflare_webhook, in start order
    registry,     \* the remote registry: resource id -> kind held, or "absent"
    regCalls,     \* registry operations issued, in the order they completed
    eventLog,     \* webhook_events.log, one entry per line
    resp,         \* the request handled last and the response it got
    nreq,         \* number of requests handled so far
    syncThreads,  \* background threads started by manual_sync, in start order
    \* ---- CloudflareFetcher._paginated_fetch ---------------------------------
    provider,     \* the provider one call runs against: its list and its failures
    params,       \* the per_page entry of the params argument (0: none supplied)
    pf,           \* the call's locals, the requests it issued and what it returned
    \* ---- CloudflareFetcher.get_all_resources --------------------------------
    outcome,      \* per resource kind, how the provider answered that kind's fetch
    ga,           \* the call's position, its resources dict and the fetches it tried
    \* ---- RegistryUpdater write operations -----------------------------------
    rc,           \* the call made last: its arguments, the HTTP answer, its result
    \* ---- sync_all_resources and GET /status ---------------------------------
    sa,           \* the run: its position, argument, locals and return value
    syncLog,      \* sync_all.log, as its sequence of lines
    snapshot,     \* full_sync_snapshot.json
    runs,         \* number of runs that have returned
    statusResp,   \* the response of the GET /status handled last
    \* ---- CloudflareFetcher._get_secret -------------------------------------
    gs,           \* the lookup made last: reference, `op` outcome, environment, result
    \* ---- a second run of sync_all_resources ----------------------------------
    sb,           \* as sa, for the run compared with it
    \* ---- sync_resources called twice against a full-replace registry --------
    tw,           \* the list synced, the payloads sent, what the registry holds
    \* ---- deploy_with_full_integration (chittyos-cloudflare-mcp/server.py) ----
    dp,           \* the call: how each service answers, the steps run, the return
    \* ---- NeonDatabase (chittyos-openai-gpt/api/main.py) ----------------------
    db            \* self.pool, the pools created and each coroutine's position

webhookVars == <<secret, apiKey, tasks, registry, regCalls, eventLog, resp, nreq, syncThreads>>

fetchVars == <<provider, params, pf>>

allVars == <<outcome, ga>>

registryVars == <<rc>>

syncVars == <<sa, syncLog, snapshot, runs, statusResp>>

secretVars == <<gs>>

twiceVars == <<tw>>

deployVars == <<dp>>

poolVars == <<db>>

\* The components a run of sync_all_resources leaves alone, besides the
\* listener's and the page loop's.
quietVars == <<secretVars, twiceVars, deployVars, poolVars>>

twinVars == <<sb>>

laterVars == <<quietVars, twinVars>>

vars == <<webhookVars, fetchVars, allVars, registryVars, syncVars, laterVars>>

\* Variables of the other components, left alone by each component's actions.
othersOfWebhook  == <<fetchVars, allVars, registryVars, syncVars, laterVars>>
othersOfFetch    == <<webhookVars, allVars, registryVars, syncVars, laterVars>>
othersOfAll      == <<webhookVars, fetchVars, registryVars, syncVars, laterVars>>
othersOfRegistry == <<webhookVars, fetchVars, allVars, syncVars, laterVars>>
othersOfSync     == <<webhookVars, fetchVars, quietVars>>
earlierVars      == <<webhookVars, fetchVars, allVars, registryVars, syncVars>>
othersOfSecret   == <<earlierVars, twinVars, twiceVars, deployVars, poolVars>>
othersOfTwice    == <<earlierVars, twinVars, secretVars, deployVars, poolVars>>
othersOfDeploy   == <<earlierVars, twinVars, secretVars, twiceVars, poolVars>>
othersOfPool     == <<earlierVars, twinVars, secretVars, twiceVars, deployVars>>

(***************************************************************************)
(* Bounds of the model                                                     *)
(***************************************************************************)
MaxRequests == 2
MaxTotal == 110
RecordsPerKind == 2
MaxTypes == 2

(***************************************************************************)
(* Requests.  A raw body is a sequence of two bytes: the first decides     *)
(* what json.loads finds under "event", the second what it finds under     *)
(* "data".  HMAC is computed over these raw bytes, before any parsing.     *)
(***************************************************************************)
EventBytes == 0..6
DataBytes  == 0..2
Bodies     == {<<e, d>> : e \in EventBytes, d \in DataBytes}

Secrets == {1, 2}

\* hmac.new(key, payload, sha256).hexdigest(): a keyed digest of the raw bytes,
\* folded byte by byte; injective on Secrets \X Bodies (no collisions).
RECURSIVE HmacFold(_, _)
HmacFold(h, bytes) ==
    IF bytes = <<>> THEN h
    ELSE HmacFold(h * 37 + Head(bytes) + 1, Tail(bytes))

HmacHex(key, payload) == HmacFold(key, payload)

\* The X-Signature-256 header as request.headers.get('X-Signature-256', '') sees it:
\* a hex digest, the empty string (header absent), or a text with a non-ASCII
\* character (header bytes >= 0x80, which WSGI decodes as latin-1).
HexSig(n)   == [kind |-> "hex", v |-> n]
EmptySig    == [kind |-> "empty", v |-> 0]
NonAsciiSig == [kind |-> "nonascii", v |-> 0]

\* hmac.compare_digest(a, b) on two str: raises TypeError when either holds a
\* non-ASCII character, otherwise answers whether they are equal.
CompareDigest(expected, signature) ==
    IF signature.kind = "nonascii" THEN "raise"
    ELSE IF signature = expected THEN "equal" ELSE "differ"

verify_signature(key, payload, signature) ==
    CompareDigest(HexSig(HmacHex(key, payload)), signature)

\* json.loads(payload) followed by data.get('event', {}) and data.get('data', {}).
EventField(e) ==
    CASE e = 0 -> [shape |-> "object", type |-> "zone.created"]
      [] e = 1 -> [shape |-> "object", type |-> "zone.deleted"]
      [] e = 2 -> [shape |-> "object", type |-> "worker.deployed"]
      [] e = 3 -> [shape |-> "object", type |-> "dns.record.changed"]
      [] e = 4 -> [shape |-> "object", type |-> ""]          \* no "event" key: {}
      [] OTHER -> [shape |-> "string", type |-> ""]          \* "event": "x": .get raises

DataField(d) ==
    CASE d = 0 -> [shape |-> "object", id |-> "r1"]
      [] d = 1 -> [shape |-> "object", id |-> "None"]        \* no "data" key, or no id
      [] OTHER -> [shape |-> "string", id |-> "None"]        \* "data": "x"

json_loads(payload) ==
    IF payload[1] = 6
    THEN [valid |-> FALSE, event |-> EventField(5), data |-> DataField(2)]
    ELSE [valid |-> TRUE, event |-> EventField(payload[1]), data |-> DataField(payload[2])]

\* The table of cloudflare_webhook.
event_mapping ==
    [t \in {"zone.created", "zone.updated", "zone.deleted", "worker.deployed",
            "worker.deleted", "pages.project.created", "pages.deployment.started",
            "pages.project.deleted"} |->
        CASE t = "zone.created"             -> <<"domain", "create">>
          [] t = "zone.updated"             -> <<"domain", "update">>
          [] t = "zone.deleted"             -> <<"domain", "delete">>
          [] t = "worker.deployed"          -> <<"worker", "update">>
          [] t = "worker.deleted"           -> <<"worker", "delete">>
          [] t = "pages.project.created"    -> <<"pages", "create">>
          [] t = "pages.deployment.started" -> <<"pages", "update">>
          [] OTHER                          -> <<"pages", "delete">>]

IsMapped(event_type) == event_type \in DOMAIN event_mapping

\* The signatures a sender may put on `body`: the right one, the right one with
\* a digit changed, the digest of a different body, the digest under another
\* key, none, and one with a byte >= 0x80.
SigChoices(body) ==
    {HexSig(HmacHex(k, body)) : k \in Secrets}
    \cup {HexSig(HmacHex(secret, body) + 1),
          HexSig(HmacHex(secret, <<body[1], (body[2] + 1) % 3>>)),
          EmptySig, NonAsciiSig}

ResourceIds == {"r1"}

NoResp == [endpoint |-> "none", seq |-> 0, code |-> 0, status |-> "", body |-> <<>>,
           sig |-> EmptySig, parsed |-> FALSE, key |-> "", rtype |-> ""]

ConfiguredKeys == {"", "k1"}

\* The six kinds of get_all_resources, in the order it fetches them.
KindOrder == <<"domains", "workers", "pages", "r2_buckets", "kv_namespaces", "durable_objects">>
Kinds == {KindOrder[i] : i \in DOMAIN KindOrder}

\* A component no call of which is in progress.
FetchIdle ==
    /\ provider = [total |-> 0, info |-> TRUE, failPage |-> 0, failKind |-> "none"]
    /\ params = 0
    /\ pf = [pc |-> "idle", page |-> 0, all_results |-> <<>>, requests |-> <<>>,
             returned |-> <<>>]

Unasked == [list |-> "unasked", n |-> 0, detail |-> <<>>]

AllIdle ==
    /\ outcome = [k \in Kinds |-> Unasked]
    /\ ga = [pc |-> "idle", i |-> 0, resources |-> [k \in Kinds |-> <<>>],
             attempts |-> <<>>]

NoCall == [op |-> "none", name |-> "", resource_id |-> "", resource_type |-> "", count |-> 0]

\* Python's None where a dict is expected.
None == [none |-> TRUE]

RegistryIdle ==
    rc = [call |-> NoCall, verb |-> "", endpoint |-> "", status |-> "none", body |-> None,
          requests |-> "", raised |-> FALSE, value |-> None]

\* An empty dict.
EmptyDict == <<>>

\* No file of that name exists.
Absent == [state |-> "absent", timestamp |-> 0, resources |-> [k \in Kinds |-> <<>>],
           summary |-> None]

NoStatus == [code |-> 0, json |-> None]

\* The locals of a run that has not been called.
NoRun == [pc |-> "idle", resource_types |-> <<>>, types_to_sync |-> <<>>, i |-> 0,
          now |-> 0, health |-> TRUE, all_resources |-> [k \in Kinds |-> <<>>],
          summary |-> None, calls |-> <<>>, returned |-> -1, exc |-> "none"]

SyncIdle ==
    /\ sa = NoRun
    /\ syncLog = <<>>
    /\ snapshot = Absent
    /\ runs = 0
    /\ statusResp = NoStatus

SecretIdle ==
    gs = [reference |-> <<>>, op |-> "none", stdout |-> <<>>, env |-> <<>>,
          raised |-> FALSE, value |-> <<>>]

\* The components added after the sync run, none of them in use.
Idle == [pc |-> "idle"]

TwiceIdle == tw = Idle

DeployIdle == dp = Idle

PoolIdle == db = Idle

QuietIdle == SecretIdle /\ TwiceIdle /\ DeployIdle /\ PoolIdle

LaterIdle == QuietIdle /\ sb = NoRun

\* The listener after import, before any request.
ListenerStart ==
    /\ secret = 1
    /\ tasks = <<>>
    /\ registry = [r \in ResourceIds |-> "absent"]
    /\ regCalls = <<>>
    /\ eventLog = <<>>
    /\ resp = NoResp
    /\ nreq = 0
    /\ syncThreads = <<>>

Init ==
    /\ ListenerStart
    /\ RegistryIdle
    /\ SyncIdle
    /\ LaterIdle
    /\ apiKey = "k1"
    /\ FetchIdle
    /\ AllIdle

WebhookResp(code, status, body, sig, parsed) ==
    [endpoint |-> "webhook", seq |-> nreq + 1, code |-> code, status |-> status,
     body |-> body, sig |-> sig, parsed |-> parsed, key |-> "", rtype |-> ""]

\* An event type that is no key of the table: 200, 'ignored'.
IgnoredResponseKeyError(body, sig) == WebhookResp(500, "Processing failed", body, sig, TRUE)

IgnoredResponse(body, sig) == WebhookResp(200, "ignored", body, sig, TRUE)

\* POST /webhook/cloudflare
cloudflare_webhook(body, sig) ==
    /\ nreq < MaxRequests
    /\ nreq' = nreq + 1
    /\ LET v == verify_signature(secret, body, sig)
           data == json_loads(body)
       IN
       IF v = "raise" THEN
            \* TypeError outside the try block: Flask answers 500
            /\ resp' = WebhookResp(500, "unhandled", body, sig, FALSE)
            /\ UNCHANGED tasks
       ELSE IF v # "equal" THEN
            /\ resp' = WebhookResp(403, "Invalid signature", body, sig, FALSE)
            /\ UNCHANGED tasks
       ELSE IF ~data.valid \/ data.event.shape # "object" THEN
            /\ resp' = WebhookResp(500, "Processing failed", body, sig, TRUE)
            /\ UNCHANGED tasks
       ELSE IF IsMapped(data.event.type) THEN
            /\ tasks' = Append(tasks,
                   [resource_type |-> event_mapping[data.event.type][1],
                    action |-> event_mapping[data.event.type][2],
                    resource_data |-> data.data,
                    req |-> nreq + 1, pc |-> "start", result |-> "none"])
            /\ resp' = WebhookResp(202, "accepted", body, sig, TRUE)
       ELSE
            /\ resp' = IgnoredResponse(body, sig)
            /\ UNCHANGED tasks
    /\ UNCHANGED <<secret, apiKey, registry, regCalls, eventLog, syncThreads>>
    /\ UNCHANGED othersOfWebhook


\* What a registry operation answers: the registry's JSON body (success), or the
\* failure value the client builds from a RequestException.
RegistryOutcomes == {"ok", "fail"}

\* The registry's own effect of an operation that succeeded.
RegistryApply(reg, op, kind, id) ==
    IF id \notin DOMAIN reg THEN reg
    ELSE IF op = "delete_resource" THEN [reg EXCEPT ![id] = "absent"]
    ELSE [reg EXCEPT ![id] = kind]

\* A started thread runs whenever the scheduler picks it: threading.Thread(...).start()
\* with no join, lock or queue between the threads.
TaskReadyFifo(i) ==
    /\ tasks[i].pc = "start"
    /\ \A j \in 1..(i - 1) : tasks[j].pc \in {"done", "failed", "returned"}

TaskReady(i) == tasks[i].pc = "start"

\* The registry operation handle_resource_update chooses for an action
\* ("none": the 'Unknown action' branch).
RegistryOp(action) ==
    IF action = "delete" THEN "delete_resource"
    ELSE IF action \in {"create", "update"} THEN "register_resource"
    ELSE "none"

\* handle_resource_update up to and including the registry call.  resource_data.get
\* and resource_data[...] = ... raise on anything that is not a dict; the except
\* clause prints and the thread ends.
TaskCall(i) ==
    /\ i \in DOMAIN tasks
    /\ TaskReady(i)
    /\ LET t  == tasks[i]
           op == RegistryOp(t.action)
       IN
       IF op = "none" THEN
            /\ tasks' = [tasks EXCEPT ![i].pc = "returned"]
            /\ UNCHANGED <<registry, regCalls>>
       ELSE IF t.resource_data.shape # "object" THEN
            /\ tasks' = [tasks EXCEPT ![i].pc = "failed"]
            /\ UNCHANGED <<registry, regCalls>>
       ELSE
            \E out \in RegistryOutcomes :
                /\ regCalls' = Append(regCalls,
                       [task |-> i, op |-> op,
                        kind |-> IF op = "register_resource" THEN t.resource_type ELSE "",
                        id |-> t.resource_data.id, out |-> out])
                /\ registry' = IF out = "ok"
                               THEN RegistryApply(registry, op, t.resource_type, t.resource_data.id)
                               ELSE registry
                /\ tasks' = [tasks EXCEPT ![i].pc = "called", ![i].result = out]
    /\ UNCHANGED <<secret, apiKey, eventLog, resp, nreq, syncThreads>>
    /\ UNCHANGED othersOfWebhook

AppendLineOverwriting(log, line) == <<line>>

\* with open('webhook_events.log', 'a') as log: log.write(line + '\n'), the
\* write of one short line taken as atomic.
AppendLine(log, line) == Append(log, line)

\* handle_resource_update after the call: the print and the append to
\* webhook_events.log (one write of one line).
TaskLog(i) ==
    /\ i \in DOMAIN tasks
    /\ tasks[i].pc = "called"
    /\ eventLog' = AppendLine(eventLog,
           [task |-> i, action |-> tasks[i].action,
            resource_type |-> tasks[i].resource_type,
            resource_id |-> tasks[i].resource_data.id,
            result |-> tasks[i].result])
    /\ tasks' = [tasks EXCEPT ![i].pc = "done"]
    /\ UNCHANGED <<secret, apiKey, registry, regCalls, resp, nreq, syncThreads>>
    /\ UNCHANGED othersOfWebhook

valid_types == {"domains", "workers", "pages", "all"}

ManualResp(code, status, key, rtype) ==
    [endpoint |-> "manual-sync", seq |-> nreq + 1, code |-> code, status |-> status,
     body |-> <<>>, sig |-> EmptySig, parsed |-> FALSE, key |-> key, rtype |-> rtype]

KeyRejectedNever(api_key) == FALSE

KeyRejectedWhenEmpty(api_key) == api_key = "" \/ api_key # apiKey

\* if api_key != REGISTRY_API_KEY
KeyRejected(api_key) == api_key # apiKey

\* POST /webhook/manual-sync/<resource_type>; api_key is
\* request.headers.get('X-API-Key', '').
manual_sync(api_key, resource_type) ==
    /\ nreq < MaxRequests
    /\ nreq' = nreq + 1
    /\ IF KeyRejected(api_key) THEN
            /\ resp' = ManualResp(401, "Unauthorized", api_key, resource_type)
            /\ UNCHANGED syncThreads
       ELSE IF resource_type \notin valid_types THEN
            /\ resp' = ManualResp(400, "Invalid resource type", api_key, resource_type)
            /\ UNCHANGED syncThreads
       ELSE
            /\ syncThreads' = Append(syncThreads,
                   [resource_type |-> resource_type, pc |-> "start", ran |-> ""])
            /\ resp' = ManualResp(202, "sync_started", api_key, resource_type)
    /\ UNCHANGED <<secret, apiKey, tasks, registry, regCalls, eventLog>>
    /\ UNCHANGED othersOfWebhook

\* run_sync: the script the thread runs as a subprocess.
run_sync(i) ==
    /\ i \in DOMAIN syncThreads
    /\ syncThreads[i].pc = "start"
    /\ syncThreads' = [syncThreads EXCEPT
           ![i].pc = "done",
           ![i].ran = IF syncThreads[i].resource_type = "all" THEN "sync_all.py"
                      ELSE "hooks/sync_<resource_type>.py"]
    /\ UNCHANGED <<secret, apiKey, tasks, registry, regCalls, eventLog, resp, nreq>>
    /\ UNCHANGED othersOfWebhook

ApiKeys == {"", "k1", "k2"}
PathTypes == {"domains", "workers", "pages", "all", "r2_buckets", "bogus"}

Next ==
    \/ \E body \in Bodies : \E sig \in SigChoices(body) : cloudflare_webhook(body, sig)
    \/ \E i \in 1..MaxRequests : TaskCall(i)
    \/ \E i \in 1..MaxRequests : TaskLog(i)

Spec == Init /\ [][Next]_vars

InitManual ==
    /\ ListenerStart
    /\ RegistryIdle
    /\ SyncIdle
    /\ LaterIdle
    /\ apiKey \in ConfiguredKeys
    /\ FetchIdle
    /\ AllIdle

NextManual ==
    \/ \E k \in ApiKeys : \E rt \in PathTypes : manual_sync(k, rt)
    \/ \E i \in 1..MaxRequests : run_sync(i)

SpecManual == InitManual /\ [][NextManual]_vars


(***************************************************************************)
(* CloudflareFetcher._paginated_fetch                                      *)
(***************************************************************************)
per_page == 50

\* Page sizes a caller may put in params (0: params carries no per_page).
PageSizes == {0, 25, 50, 100}

FailKinds == {"network", "status", "success_false"}

Min(a, b) == IF a < b THEN a ELSE b

CeilDiv(a, b) == (a + b - 1) \div b

\* The provider's list is the items 1..total; page `page` of size `size` is the
\* next `size` of them (fewer on the last page, none beyond it).
PageItems(page, size, total) ==
    [k \in 1..(Min(page * size, total) - Min((page - 1) * size, total)) |->
        Min((page - 1) * size, total) + k]

\* request_params = {'page': page, 'per_page': per_page}; request_params.update(params)
RequestedSize(prm) == IF prm # 0 THEN prm ELSE per_page

\* data.get('result_info', {}).get('total_count', 0)
ReportedTotal(prov) == IF prov.info THEN prov.total ELSE 0

\* if page * per_page >= result_info.get('total_count', 0): break
LastPageStrict(page, prov) == page * per_page > ReportedTotal(prov)

LastPage(page, prov) == page * per_page >= ReportedTotal(prov)

\* One turn of the while loop: one request, its checks, the extend and the test
\* that ends the loop.
FetchPage ==
    /\ pf.pc = "loop"
    /\ LET page == pf.page
           reqs == Append(pf.requests, page)
           got  == pf.all_results \o PageItems(page, RequestedSize(params), provider.total)
       IN
       IF provider.failPage = page THEN
            \* requests.get raises, or status_code != 200, or not data['success']
            pf' = [pf EXCEPT !.pc = "raised", !.requests = reqs]
       ELSE IF LastPage(page, provider) THEN
            pf' = [pf EXCEPT !.pc = "returned", !.requests = reqs,
                             !.all_results = got, !.returned = got]
       ELSE
            pf' = [pf EXCEPT !.page = page + 1, !.requests = reqs, !.all_results = got]
    /\ UNCHANGED <<provider, params>>
    /\ UNCHANGED othersOfFetch

InitFetch ==
    /\ ListenerStart
    /\ RegistryIdle
    /\ SyncIdle
    /\ LaterIdle
    /\ apiKey = "k1"
    /\ AllIdle
    /\ \E t \in 0..MaxTotal, info \in BOOLEAN, fp \in 0..(CeilDiv(MaxTotal, per_page) + 1) :
         \E fk \in (IF fp = 0 THEN {"none"} ELSE FailKinds) :
            provider = [total |-> t, info |-> info, failPage |-> fp, failKind |-> fk]
    /\ params \in PageSizes
    /\ pf = [pc |-> "loop", page |-> 1, all_results |-> <<>>, requests |-> <<>>,
             returned |-> <<>>]

NextFetch == FetchPage

SpecFetch == InitFetch /\ [][NextFetch]_vars /\ WF_vars(NextFetch)


(***************************************************************************)
(* CloudflareFetcher.get_all_resources                                     *)
(***************************************************************************)
\* The 'resource_type' each get_<kind> puts on its records.
ResourceTypeOf(kind) ==
    CASE kind = "domains"       -> "domain"
      [] kind = "workers"       -> "worker"
      [] kind = "pages"         -> "pages"
      [] kind = "r2_buckets"    -> "r2_bucket"
      [] kind = "kv_namespaces" -> "kv_namespace"
      [] OTHER                  -> "durable_object"

\* The record get_<kind> builds from the provider's j-th item of that kind.
RecordOf(kind, j) == [id |-> j, resource_type |-> ResourceTypeOf(kind)]

Raised == [raised |-> TRUE, records |-> <<>>]
Returned(recs) == [raised |-> FALSE, records |-> recs]

\* How the per-script detail call of get_workers may end.
DetailOutcomes == {"ok", "status", "success_false", "no_success_field", "network"}

\* get_domains, get_pages, get_kv_namespaces, get_durable_objects: _paginated_fetch
\* (one page here) and the list comprehension over what it returned.
get_paginated(kind, o) ==
    IF o.list # "ok" THEN Raised
    ELSE Returned([j \in 1..o.n |-> RecordOf(kind, j)])

\* get_r2_buckets: one request; a non-200 status or a body without success
\* returns [] and only a failing requests.get raises.
get_r2_buckets(o) ==
    IF o.list = "network" THEN Raised
    ELSE IF o.list # "ok" THEN Returned(<<>>)
    ELSE Returned([j \in 1..o.n |-> RecordOf("r2_buckets", j)])

\* get_workers: the script list, then one detail request per script; a script is
\* appended only when its detail answers 200 with success true, and a detail call
\* that raises (requests.get, or detail_data['success'] on a body without it)
\* leaves get_workers by that exception.
RECURSIVE WorkersFrom(_, _, _)
WorkersFrom(j, n, detail) ==
    IF j > n THEN <<>>
    ELSE IF detail[j] = "ok" THEN <<RecordOf("workers", j)>> \o WorkersFrom(j + 1, n, detail)
    ELSE WorkersFrom(j + 1, n, detail)

get_workers(o) ==
    IF o.list # "ok" THEN Raised
    ELSE IF \E j \in 1..o.n : o.detail[j] \in {"network", "no_success_field"} THEN Raised
    ELSE Returned(WorkersFrom(1, o.n, o.detail))

get_kind(kind, o) ==
    CASE kind = "workers"    -> get_workers(o)
      [] kind = "r2_buckets" -> get_r2_buckets(o)
      [] OTHER               -> get_paginated(kind, o)

\* try: resources[kind] = self.get_<kind>()  except Exception as e: print(...)
\* What the try statement leaves: the dict, and whether an exception escaped.
TryFetchUnguarded(resources, kind, r) ==
    IF r.raised THEN [escaped |-> TRUE, resources |-> resources]
    ELSE [escaped |-> FALSE, resources |-> [resources EXCEPT ![kind] = r.records]]

TryFetch(resources, kind, r) ==
    IF r.raised THEN [escaped |-> FALSE, resources |-> resources]
    ELSE [escaped |-> FALSE, resources |-> [resources EXCEPT ![kind] = r.records]]

\* How the provider may answer a kind's fetch: its list call, how many items it
\* holds, and (workers) each script's detail call.
ListOutcomes == {"ok", "network", "status", "success_false"}

DetailChoices(n) ==
    {[j \in 1..n |-> "ok"]}
    \cup {[j \in 1..n |-> IF j = f THEN d ELSE "ok"] : f \in 1..n, d \in DetailOutcomes}

ProviderAnswers(kind) ==
    {[list |-> l, n |-> 0, detail |-> <<>>] : l \in ListOutcomes}
    \cup {[list |-> "ok", n |-> RecordsPerKind, detail |-> d] :
            d \in (IF kind = "workers" THEN DetailChoices(RecordsPerKind) ELSE {<<>>})}

\* One of the six try statements of get_all_resources; the sixth is followed by
\* the return.
FetchKind(o) ==
    /\ ga.pc = "run"
    /\ LET kind == KindOrder[ga.i]
           t    == TryFetch(ga.resources, kind, get_kind(kind, o))
       IN
       /\ o \in ProviderAnswers(kind)
       /\ outcome' = [outcome EXCEPT ![kind] = o]
       /\ ga' = [ga EXCEPT
              !.pc = IF t.escaped THEN "raised"
                     ELSE IF ga.i = Len(KindOrder) THEN "returned" ELSE "run",
              !.i = ga.i + 1,
              !.resources = t.resources,
              !.attempts = Append(ga.attempts, kind)]
    /\ UNCHANGED othersOfAll

InitAll ==
    /\ ListenerStart
    /\ RegistryIdle
    /\ SyncIdle
    /\ LaterIdle
    /\ apiKey = "k1"
    /\ FetchIdle
    /\ outcome = [k \in Kinds |-> Unasked]
    /\ ga = [pc |-> "run", i |-> 1, resources |-> [k \in Kinds |-> <<>>],
             attempts |-> <<>>]

NextAll == \E o \in UNION {ProviderAnswers(k) : k \in Kinds} : FetchKind(o)

SpecAll == InitAll /\ [][NextAll]_vars


(***************************************************************************)
(* RegistryUpdater: the five write operations.  Each sends one request,    *)
(* calls raise_for_status() and returns response.json(), all inside        *)
(* try ... except requests.exceptions.RequestException.                    *)
(***************************************************************************)
\* What the registry may answer: no response at all, or a final status of
\* one of four classes with a body that is a JSON object or is not JSON.
HttpStatuses == {"2xx", "3xx", "4xx", "5xx"}

JsonBodies == {[success |-> TRUE],
               [success |-> FALSE, error |-> "rejected"],
               [message |-> "accepted"]}

NotJson == [raw |-> "text"]

RegistryAnswers ==
    {[status |-> "network", body |-> None]}
    \cup [status : HttpStatuses, body : JsonBodies \cup {NotJson}]

\* The error response.json() raises on a body that is not JSON is a
\* RequestException from requests 2.27 on and a plain ValueError before; the
\* repository pins no version.
RequestsVersions == {"2.27+", "older"}

\* dict.get(key, default)
Get(d, key, default) == IF key \in DOMAIN d THEN d[key] ELSE default

raise_for_status_never(status) == FALSE

\* Response.raise_for_status(): HTTPError for 400 <= status_code < 600.
raise_for_status(status) == status \in {"4xx", "5xx"}

\* The three statements of every try block: what they raise, or the parsed body.
Send(a, lib) ==
    IF a.status = "network"
    THEN [exc |-> "RequestException", msg |-> "ConnectionError", doc |-> None]
    ELSE IF raise_for_status(a.status)
    THEN [exc |-> "RequestException", msg |-> "HTTPError", doc |-> None]
    ELSE IF a.body = NotJson
    THEN [exc |-> IF lib = "2.27+" THEN "RequestException" ELSE "ValueError",
          msg |-> "JSONDecodeError", doc |-> None]
    ELSE [exc |-> "none", msg |-> "", doc |-> a.body]

\* try: return the body; except RequestException: return `failure`; anything
\* else propagates to the caller.
Guarded(sent, failure) ==
    IF sent.exc = "none" THEN [raised |-> FALSE, value |-> sent.doc]
    ELSE IF sent.exc = "RequestException" THEN [raised |-> FALSE, value |-> failure]
    ELSE [raised |-> TRUE, value |-> [exception |-> sent.msg]]

register_resource(resource, a, lib) ==
    LET sent == Send(a, lib) IN
    Guarded(sent, [success |-> FALSE, error |-> sent.msg, resource |-> resource.name])

update_resource(resource_id, a, lib) ==
    LET sent == Send(a, lib) IN
    Guarded(sent, [success |-> FALSE, error |-> sent.msg, resource_id |-> resource_id])

delete_resource(resource_id, a, lib) ==
    LET sent == Send(a, lib) IN
    Guarded(sent, [success |-> FALSE, error |-> sent.msg, resource_id |-> resource_id])

bulk_register(resources, a, lib) ==
    LET sent == Send(a, lib) IN
    Guarded(sent, [success |-> FALSE, error |-> sent.msg, count |-> Len(resources)])

sync_resources(resource_type, resources, a, lib) ==
    LET sent == Send(a, lib) IN
    Guarded(sent, [success |-> FALSE, error |-> sent.msg,
                   resource_type |-> resource_type, count |-> Len(resources)])

ResourceNames == {"a.example", "b.example"}

\* The list of the first n records of a kind.
Records(kind, n) == [j \in 1..n |-> RecordOf(kind, j)]

\* The operation calls made: every operation, with small arguments.
RegistryCalls ==
    {[NoCall EXCEPT !.op = "register_resource", !.name = n] : n \in ResourceNames}
    \cup {[NoCall EXCEPT !.op = o, !.resource_id = r] :
             o \in {"update_resource", "delete_resource"}, r \in ResourceIds}
    \cup {[NoCall EXCEPT !.op = "bulk_register", !.count = n] : n \in 0..RecordsPerKind}
    \cup {[NoCall EXCEPT !.op = "sync_resources", !.resource_type = k, !.count = n] :
             k \in Kinds, n \in 0..RecordsPerKind}

\* The HTTP verb and the path under api_url of each operation.
CallRequest(c) ==
    CASE c.op = "register_resource" -> <<"POST", "/api/resources">>
      [] c.op = "update_resource"   -> <<"PATCH", "/api/resources/" \o c.resource_id>>
      [] c.op = "delete_resource"   -> <<"DELETE", "/api/resources/" \o c.resource_id>>
      [] c.op = "bulk_register"     -> <<"POST", "/api/resources/bulk">>
      [] OTHER                      -> <<"POST", "/api/sync/" \o ResourceTypeOf(c.resource_type)>>

CallResult(c, a, lib) ==
    CASE c.op = "register_resource" -> register_resource([name |-> c.name], a, lib)
      [] c.op = "update_resource"   -> update_resource(c.resource_id, a, lib)
      [] c.op = "delete_resource"   -> delete_resource(c.resource_id, a, lib)
      [] c.op = "bulk_register"     -> bulk_register(Records("domains", c.count), a, lib)
      [] OTHER                      -> sync_resources(ResourceTypeOf(c.resource_type),
                                                      Records(c.resource_type, c.count), a, lib)

\* One call of a write operation, answered by `a`, under requests version `lib`.
CallRecord(c, a, lib) ==
    LET r == CallResult(c, a, lib) IN
    [call |-> c, verb |-> CallRequest(c)[1], endpoint |-> CallRequest(c)[2],
     status |-> a.status, body |-> a.body, requests |-> lib,
     raised |-> r.raised, value |-> r.value]

RegistryCall(c, a, lib) ==
    /\ rc' = CallRecord(c, a, lib)
    /\ UNCHANGED othersOfRegistry

InitRegistry ==
    /\ ListenerStart
    /\ RegistryIdle
    /\ SyncIdle
    /\ LaterIdle
    /\ apiKey = "k1"
    /\ FetchIdle
    /\ AllIdle

NextRegistry ==
    \E c \in RegistryCalls, a \in RegistryAnswers, lib \in RequestsVersions :
        RegistryCall(c, a, lib)

SpecRegistry == InitRegistry /\ [][NextRegistry]_vars

(***************************************************************************)
(* CloudflareFetcher._get_secret: `op read <reference>` first, then the    *)
(* environment.  Text is a sequence of one-character strings.              *)
(***************************************************************************)
Lowercase ==
    <<"a", "b", "c", "d", "e", "f", "g", "h", "i", "j", "k", "l", "m", "n",
      "o", "p", "q", "r", "s", "t", "u", "v", "w", "x", "y", "z">>

Uppercase ==
    <<"A", "B", "C", "D", "E", "F", "G", "H", "I", "J", "K", "L", "M", "N",
      "O", "P", "Q", "R", "S", "T", "U", "V", "W", "X", "Y", "Z">>

\* The three references of CloudflareFetcher.__init__ (lines 12-14).
ApiKeyReference ==
    <<"o", "p", ":", "/", "/", "C", "l", "a", "u", "d", "e", "-", "C", "o",
      "d", "e", " ", "T", "o", "o", "l", "s", "/", "C", "l", "o", "u", "d",
      "f", "l", "a", "r", "e", " ", "A", "P", "I", " ", "K", "E", "Y", "S",
      "/", "g", "l", "o", "b", "a", "l", "_", "a", "p", "i", "_", "k", "e",
      "y">>

EmailReference ==
    <<"o", "p", ":", "/", "/", "C", "l", "a", "u", "d", "e", "-", "C", "o",
      "d", "e", " ", "T", "o", "o", "l", "s", "/", "C", "l", "o", "u", "d",
      "f", "l", "a", "r", "e", " ", "A", "P", "I", " ", "K", "E", "Y", "S",
      "/", "e", "m", "a", "i", "l">>

AccountIdReference ==
    <<"o", "p", ":", "/", "/", "C", "l", "a", "u", "d", "e", "-", "C", "o",
      "d", "e", " ", "T", "o", "o", "l", "s", "/", "C", "l", "o", "u", "d",
      "f", "l", "a", "r", "e", " ", "A", "P", "I", " ", "K", "E", "Y", "S",
      "/", "a", "c", "c", "o", "u", "n", "t", " ", "i", "d">>

References == {ApiKeyReference, EmailReference, AccountIdReference}

\* str.upper(), on one character and on a text.
UpperChar(ch) ==
    IF \E i \in DOMAIN Lowercase : Lowercase[i] = ch
    THEN Uppercase[CHOOSE i \in DOMAIN Lowercase : Lowercase[i] = ch]
    ELSE ch

upper(text) == [i \in DOMAIN text |-> UpperChar(text[i])]

\* str.replace(' ', '_')
replace(text) == [i \in DOMAIN text |-> IF text[i] = " " THEN "_" ELSE text[i]]

\* reference.split('/')[-1]
LastSegment(text) ==
    LET slashes == {i \in DOMAIN text : text[i] = "/"}
        last    == IF slashes = {} THEN 0
                   ELSE CHOOSE i \in slashes : \A j \in slashes : j <= i
    IN SubSeq(text, last + 1, Len(text))

Whitespace == {" ", "\n", "\t"}

\* str.strip()
RECURSIVE strip(_)
strip(text) ==
    IF text = <<>> THEN text
    ELSE IF text[1] \in Whitespace THEN strip(Tail(text))
    ELSE IF text[Len(text)] \in Whitespace THEN strip(SubSeq(text, 1, Len(text) - 1))
    ELSE text

\* os.getenv(name, '')
getenv(env, name) == IF name \in DOMAIN env THEN env[name] ELSE <<>>

\* How running `op` ends: exit status 0, a non-zero exit status
\* (CalledProcessError under check=True), or the command cannot be started
\* (FileNotFoundError or another OSError, raised by subprocess.run itself).
OpOutcomes == {"ok", "exit_nonzero", "cannot_run"}

\* Lines 23-33.  The except clause names subprocess.CalledProcessError only.
_get_secret(reference, op, stdout, env) ==
    CASE op = "ok"           -> [raised |-> FALSE, value |-> strip(stdout)]
      [] op = "exit_nonzero" ->
             [raised |-> FALSE,
              value |-> getenv(env, replace(upper(LastSegment(reference))))]
      [] OTHER               -> [raised |-> TRUE, value |-> <<>>]

\* What `op read` may print: the secret, bare or with surrounding whitespace,
\* or nothing.
Stdouts == {<<"s", "k">>, <<"s", "k", "\n">>, <<" ", "s", "k", "\n">>, <<>>}

\* Names the environment may define: the three the references lead to, and the
\* last segment of the account reference as it stands.
EnvVarNames ==
    {<<"G", "L", "O", "B", "A", "L", "_", "A", "P", "I", "_", "K", "E", "Y">>,
     <<"E", "M", "A", "I", "L">>,
     <<"A", "C", "C", "O", "U", "N", "T", "_", "I", "D">>,
     <<"a", "c", "c", "o", "u", "n", "t", " ", "i", "d">>}

EnvValue(name) == <<"=">> \o name

Environments == {[n \in S |-> EnvValue(n)] : S \in SUBSET EnvVarNames}

\* One call of _get_secret.
GetSecret(reference, op, stdout, env) ==
    /\ LET r == _get_secret(reference, op, stdout, env) IN
       gs' = [reference |-> reference, op |-> op, stdout |-> stdout, env |-> env,
              raised |-> r.raised, value |-> r.value]
    /\ UNCHANGED othersOfSecret

InitSecret ==
    /\ ListenerStart
    /\ RegistryIdle
    /\ SyncIdle
    /\ LaterIdle
    /\ apiKey = "k1"
    /\ FetchIdle
    /\ AllIdle

NextSecret ==
    \E reference \in References, op \in OpOutcomes, env \in Environments :
        \E stdout \in (IF op = "ok" THEN Stdouts ELSE {<<>>}) :
            GetSecret(reference, op, stdout, env)

SpecSecret == InitSecret /\ [][NextSecret]_vars

(***************************************************************************)
(* sync_all_resources: fetch everything, sync each requested kind, append  *)
(* the summary to sync_all.log, rewrite full_sync_snapshot.json.           *)
(***************************************************************************)
\* Python's None where a string is expected (JSON null).
Null == "null"

\* The dict of line 52; its keys are in the order of KindOrder.
available_types == [k \in Kinds |-> ResourceTypeOf(k)]

\* d[key] = value
SetItem(d, key, value) == (key :> value) @@ d

RECURSIVE SumOver(_, _)
SumOver(d, keys) ==
    IF keys = {} THEN 0
    ELSE LET k == CHOOSE x \in keys : TRUE IN d[k] + SumOver(d, keys \ {k})

\* sum(d.values())
SumValues(d) == SumOver(d, DOMAIN d)

\* The keys of a dict, listed in the order of KindOrder.
KeysInOrder(d) == SelectSeq(KindOrder, LAMBDA k : k \in DOMAIN d)

Line(part, key, num, str) == [part |-> part, key |-> key, num |-> num, str |-> str]

\* The lines of one dict-valued member under indent=2: `"name": {},` when the
\* dict is empty, else an opening line, one line per entry, a closing line.
MemberLines(name, d, numeric) ==
    IF DOMAIN d = {} THEN <<Line(name \o "_empty", "", 0, "")>>
    ELSE <<Line(name \o "_open", "", 0, "")>>
         \o [x \in 1..Len(KeysInOrder(d)) |->
                LET k == KeysInOrder(d)[x] IN
                IF numeric THEN Line(name \o "_entry", k, d[k], "")
                ELSE Line(name \o "_entry", k, 0, d[k])]
         \o <<Line(name \o "_close", "", 0, "")>>

\* json.dumps(summary, indent=2): the text, line by line.
json_dumps(summary) ==
    <<Line("{", "", 0, ""), Line("timestamp", "", summary.timestamp, "")>>
    \o MemberLines("synced", summary.synced, TRUE)
    \o MemberLines("errors", summary.errors, FALSE)
    \o <<Line("total", "", summary.total, ""), Line("}", "", 0, "")>>

\* The call of get_all_resources made by a run, as the dict it returns.
RECURSIVE FetchFrom(_, _, _)
FetchFrom(i, resources, answers) ==
    IF i > Len(KindOrder) THEN resources
    ELSE LET kind == KindOrder[i] IN
         FetchFrom(i + 1, TryFetch(resources, kind, get_kind(kind, answers[kind])).resources,
                   answers)

get_all_resources(answers) == FetchFrom(1, [k \in Kinds |-> <<>>], answers)

\* The resource_types argument: nothing (None or an empty list, written <<>>),
\* or up to MaxTypes names, repeats allowed, one of them not a kind.
RequestNames == {"domains", "workers", "bogus"}

RequestedLists == UNION {[1..n -> RequestNames] : n \in 0..MaxTypes}

\* What the provider holds when a run fetches: the kinds of one of these sets
\* have RecordsPerKind records each and are fetched; the other kinds are all
\* empty, or all hold as many records and their fetches all fail.
FetchedSets == {{}, {"domains"}, {"workers"}, {"domains", "workers"},
                {"domains", "workers", "durable_objects"}}

FetchAnswers ==
    {[k \in Kinds |->
        IF k \in S
        THEN [list |-> "ok", n |-> RecordsPerKind,
              detail |-> IF k = "workers" THEN [j \in 1..RecordsPerKind |-> "ok"] ELSE <<>>]
        ELSE IF rest = "ok"
        THEN [list |-> "ok", n |-> 0, detail |-> <<>>]
        ELSE [list |-> rest, n |-> RecordsPerKind,
              detail |-> IF k = "workers" THEN [j \in 1..RecordsPerKind |-> "ok"] ELSE <<>>]] :
     S \in FetchedSets, rest \in {"ok", "network"}}

\* How the registry answers a sync call, with the requests version in use:
\* success, a body without success or error, no response, a body that is not JSON.
SyncAnswers ==
    {<<[status |-> "2xx", body |-> [success |-> TRUE]], "2.27+">>,
     <<[status |-> "2xx", body |-> [message |-> "accepted"]], "2.27+">>,
     <<[status |-> "network", body |-> None], "2.27+">>,
     <<[status |-> "2xx", body |-> NotJson], "older">>}

TypesToSyncAll(resource_types) == KindOrder

\* Line 61: resource_types if resource_types else available_types.keys()
TypesToSync(resource_types) == IF resource_types # <<>> THEN resource_types ELSE KindOrder

\* CloudflareFetcher() with no arguments: the three lookups of lines 12-14;
\* an exception of _get_secret leaves the constructor.
CloudflareFetcher(op) ==
    [raised |-> \E reference \in References : _get_secret(reference, op, <<>>, <<>>).raised]

\* How the registry answers GET /health: 200, another status, not at all.
HealthAnswers == {"200", "503", "network"}

health_check_unguarded(a) == [raised |-> a = "network", value |-> a = "200"]

\* RegistryUpdater.health_check: status_code == 200; a bare except returns False.
health_check(a) == [raised |-> FALSE, value |-> a = "200"]

\* Lines 37-61 on the locals of a run: construct the clients, probe the
\* registry (a failed probe only prints), fetch, start the summary.
StartRun(run, resource_types, answers, probe, op) ==
    IF CloudflareFetcher(op).raised \/ health_check(probe).raised
    THEN [run EXCEPT !.pc = "raised",
                     !.exc = IF CloudflareFetcher(op).raised THEN "FileNotFoundError"
                             ELSE "ConnectionError"]
    ELSE [run EXCEPT
          !.pc = "loop",
          !.resource_types = resource_types,
          !.types_to_sync = TypesToSync(resource_types),
          !.i = 1,
          !.now = run.now + 1,
          !.health = health_check(probe).value,
          !.all_resources = get_all_resources(answers),
          !.summary = [timestamp |-> run.now, synced |-> EmptyDict,
                       errors |-> EmptyDict, total |-> 0]]

\* Lines 37-61: construct the clients, check health, fetch, start the summary.
SyncStart(resource_types, answers, probe, op) ==
    /\ sa.pc = "start"
    /\ sa' = StartRun(sa, resource_types, answers, probe, op)
    /\ IF sa'.pc = "raised"
       THEN UNCHANGED <<outcome, ga>>
       ELSE /\ outcome' = answers
            /\ ga' = [pc |-> "returned", i |-> Len(KindOrder) + 1,
                      resources |-> get_all_resources(answers), attempts |-> KindOrder]
    /\ UNCHANGED <<rc, syncLog, snapshot, runs, statusResp>>
    /\ UNCHANGED othersOfSync

SyncedOrErrorSilent(summary, key, n, r) ==
    IF r.raised
    THEN summary
    ELSE IF Get(r.value, "success", FALSE)
    THEN [summary EXCEPT !.synced = SetItem(summary.synced, key, n)]
    ELSE [summary EXCEPT !.errors = SetItem(summary.errors, key, Get(r.value, "error", Null))]

\* Lines 77-89: the try statement around sync_resources, as the new summary.
SyncedOrError(summary, key, n, r) ==
    IF r.raised
    THEN [summary EXCEPT !.errors = SetItem(summary.errors, key, r.value.exception)]
    ELSE IF Get(r.value, "success", FALSE)
    THEN [summary EXCEPT !.synced = SetItem(summary.synced, key, n)]
    ELSE [summary EXCEPT !.errors = SetItem(summary.errors, key, Get(r.value, "error", Null))]

SkippedUnknownOnly(key, all_resources) == key \notin DOMAIN available_types

\* Lines 64-73: the two `continue` tests, an unknown name and an empty list.
Skipped(key, all_resources) ==
    key \notin DOMAIN available_types \/ all_resources[key] = <<>>

\* The sync_resources call of the iteration the run is at.
KindCall(run, a, lib) ==
    LET key == run.types_to_sync[run.i] IN
    CallRecord([NoCall EXCEPT !.op = "sync_resources", !.resource_type = key,
                              !.count = Len(run.all_resources[key])], a, lib)

\* Lines 63-89 on the locals of a run: one iteration of the loop.
KindRun(run, a, lib) ==
    LET key       == run.types_to_sync[run.i]
        resources == run.all_resources[key]
        r         == KindCall(run, a, lib)
    IN
    IF Skipped(key, run.all_resources)
    THEN [run EXCEPT !.i = run.i + 1]
    ELSE [run EXCEPT
          !.i = run.i + 1,
          !.summary = SyncedOrError(run.summary, key, Len(resources), r),
          !.calls = Append(run.calls, [key |-> key,
                                       resource_type |-> available_types[key],
                                       count |-> Len(resources),
                                       pos |-> run.i,
                                       raised |-> r.raised,
                                       value |-> r.value])]

\* Lines 63-89: one iteration of the loop over types_to_sync.
SyncKind(a, lib) ==
    /\ sa.pc = "loop"
    /\ sa.i <= Len(sa.types_to_sync)
    /\ sa' = KindRun(sa, a, lib)
    /\ rc' = IF Skipped(sa.types_to_sync[sa.i], sa.all_resources) THEN rc
             ELSE KindCall(sa, a, lib)
    /\ UNCHANGED <<outcome, ga, syncLog, snapshot, runs, statusResp>>
    /\ UNCHANGED othersOfSync

WriteTruncating(file, text) == text

\* open(name, 'a') and one write: the text goes after what the file holds.
WriteAppending(file, text) == file \o text

\* Line 91 on the locals of a run, which then writes the log.
LogRun(run) ==
    [run EXCEPT !.pc = "open",
                !.summary = [run.summary EXCEPT !.total = SumValues(run.summary.synced)]]

\* Lines 91-94: total, then open('sync_all.log', 'a') and one write.
WriteLog ==
    /\ sa.pc = "loop"
    /\ sa.i > Len(sa.types_to_sync)
    /\ sa' = LogRun(sa)
    /\ syncLog' = WriteAppending(syncLog, json_dumps(sa'.summary))
    /\ UNCHANGED <<outcome, ga, rc, snapshot, runs, statusResp>>
    /\ UNCHANGED othersOfSync

OpenRun(run) == [run EXCEPT !.pc = "dump"]

\* Line 96: open('full_sync_snapshot.json', 'w') empties the file.
OpenSnapshot ==
    /\ sa.pc = "open"
    /\ sa' = OpenRun(sa)
    /\ snapshot' = [Absent EXCEPT !.state = "truncated"]
    /\ UNCHANGED <<outcome, ga, rc, syncLog, runs, statusResp>>
    /\ UNCHANGED othersOfSync

ExitStatusAlwaysZero(summary) == 0

\* Line 117: return 0 if not summary['errors'] else 1
ExitStatus(summary) == IF summary.errors = EmptyDict THEN 0 ELSE 1

\* Lines 97-117 on the locals of a run.
DumpRun(run) ==
    [run EXCEPT !.pc = "done", !.now = run.now + 1, !.returned = ExitStatus(run.summary)]

\* Lines 97-117: json.dump of the snapshot, the file closed, the return value.
DumpSnapshot ==
    /\ sa.pc = "dump"
    /\ snapshot' = [state |-> "complete", timestamp |-> sa.now,
                    resources |-> sa.all_resources, summary |-> sa.summary]
    /\ sa' = DumpRun(sa)
    /\ runs' = runs + 1
    /\ UNCHANGED <<outcome, ga, rc, syncLog, statusResp>>
    /\ UNCHANGED othersOfSync

\* GET /status of the listener (webhook_listener.py lines 147-165).  A file
\* that exists but holds no complete JSON document makes json.load raise; the
\* handler catches FileNotFoundError only, and Flask answers 500.
status ==
    /\ statusResp' =
         CASE snapshot.state = "absent" ->
                [code |-> 200,
                 json |-> [status |-> "operational", last_sync |-> Null,
                           message |-> "No sync has been performed yet"]]
           [] snapshot.state = "truncated" -> [code |-> 500, json |-> None]
           [] OTHER ->
                [code |-> 200,
                 json |-> [status |-> "operational",
                           last_sync |-> snapshot.timestamp,
                           resources_synced |-> Get(snapshot.summary, "total", 0),
                           errors |-> Get(snapshot.summary, "errors", EmptyDict)]]
    /\ UNCHANGED <<outcome, ga, rc, sa, syncLog, snapshot, runs>>
    /\ UNCHANGED othersOfSync

\* What an earlier run that synced one page and failed on the domains left.
EarlierSummary == [timestamp |-> 1, synced |-> SetItem(EmptyDict, "pages", 1),
                   errors |-> SetItem(EmptyDict, "domains", "ConnectionError"),
                   total |-> 1]

EarlierSnapshot ==
    [state |-> "complete", timestamp |-> 2,
     resources |-> [k \in Kinds |->
                      CASE k = "pages"   -> Records("pages", 1)
                        [] k = "domains" -> Records("domains", RecordsPerKind)
                        [] OTHER         -> <<>>],
     summary |-> EarlierSummary]

\* The locals of a run at its first statement.
RunEntered == [NoRun EXCEPT !.pc = "start", !.now = 3]

\* A run about to start, in a directory no run has written to or one an
\* earlier run has.
InitSync ==
    /\ ListenerStart
    /\ RegistryIdle
    /\ LaterIdle
    /\ apiKey = "k1"
    /\ FetchIdle
    /\ AllIdle
    /\ sa = RunEntered
    /\ \E earlier \in BOOLEAN :
          /\ syncLog = IF earlier THEN json_dumps(EarlierSummary) ELSE <<>>
          /\ snapshot = IF earlier THEN EarlierSnapshot ELSE Absent
          /\ runs = IF earlier THEN 1 ELSE 0
    /\ statusResp = NoStatus

\* The actions of a run, sb being no part of it.
NextSync ==
    \/ \E types \in RequestedLists, answers \in FetchAnswers :
          \E probe \in HealthAnswers, op \in OpOutcomes :
             SyncStart(types, answers, probe, op) /\ UNCHANGED twinVars
    \/ \E al \in SyncAnswers : SyncKind(al[1], al[2]) /\ UNCHANGED twinVars
    \/ WriteLog /\ UNCHANGED twinVars
    \/ OpenSnapshot /\ UNCHANGED twinVars
    \/ DumpSnapshot /\ UNCHANGED twinVars
    \/ status /\ UNCHANGED twinVars

SpecSync == InitSync /\ [][NextSync]_vars

\* ---- two runs side by side ---------------------------------------------------
\* sa and sb run sync_all_resources over the same arguments, the same provider
\* answers and the same registry answers; the health probe of sa is answered
\* 200, that of sb in any way.

InitHealth ==
    /\ ListenerStart
    /\ RegistryIdle
    /\ QuietIdle
    /\ apiKey = "k1"
    /\ FetchIdle
    /\ AllIdle
    /\ sa = RunEntered
    /\ sb = RunEntered
    /\ syncLog = <<>>
    /\ snapshot = Absent
    /\ runs = 0
    /\ statusResp = NoStatus

HealthStart(resource_types, answers, probe, op) ==
    /\ SyncStart(resource_types, answers, "200", op)
    /\ sb' = StartRun(sb, resource_types, answers, probe, op)

HealthKind(a, lib) ==
    /\ SyncKind(a, lib)
    /\ sb' = IF sb.pc = "loop" /\ sb.i <= Len(sb.types_to_sync)
             THEN KindRun(sb, a, lib) ELSE sb

HealthLog ==
    /\ WriteLog
    /\ sb' = IF sb.pc = "loop" /\ sb.i > Len(sb.types_to_sync) THEN LogRun(sb) ELSE sb

HealthOpen ==
    /\ OpenSnapshot
    /\ sb' = IF sb.pc = "open" THEN OpenRun(sb) ELSE sb

HealthDump ==
    /\ DumpSnapshot
    /\ sb' = IF sb.pc = "dump" THEN DumpRun(sb) ELSE sb

NextHealth ==
    \/ \E types \in RequestedLists, answers \in FetchAnswers :
          \E probe \in HealthAnswers, op \in OpOutcomes :
             HealthStart(types, answers, probe, op)
    \/ \E al \in SyncAnswers : HealthKind(al[1], al[2])
    \/ HealthLog
    \/ HealthOpen
    \/ HealthDump

SpecHealth == InitHealth /\ [][NextHealth]_vars

\* ---- sync_resources twice against a full-replace registry -------------------

SyncPayloadIncremental(resources) ==
    [provider |-> "cloudflare", resources |-> resources, sync_mode |-> "incremental"]

\* Lines 125-130 of registry_updater.py: the request body (the timestamp,
\* which no decision reads, left out).
SyncPayload(resources) ==
    [provider |-> "cloudflare", resources |-> resources, sync_mode |-> "full"]

\* The registry files a record under its resource type and id.
Upsert(held, record) ==
    IF \E i \in DOMAIN held : held[i] = record
    THEN held
    ELSE Append(held, record)

RECURSIVE UpsertAll(_, _)
UpsertAll(held, records) ==
    IF records = <<>> THEN held
    ELSE UpsertAll(Upsert(held, Head(records)), Tail(records))

\* POST /api/sync/{resource_type} at a registry that applies sync_mode full
\* as a replacement of everything it holds of that type, and any other mode
\* as additions to what it holds.
ApplySync(held, resource_type, payload) ==
    IF payload.sync_mode = "full"
    THEN UpsertAll(SelectSeq(held, LAMBDA r : r.resource_type /= resource_type),
                   payload.resources)
    ELSE held \o payload.resources

\* Its answer to a sync it applied.
Applied == [status |-> "2xx", body |-> [success |-> TRUE]]

\* Record ids the provider hands out.
RecordIds == 1..RecordsPerKind

\* Lists of up to RecordsPerKind records of a kind, in any order, an id
\* possibly more than once.
RECURSIVE ListsUpTo(_, _)
ListsUpTo(kind, n) ==
    IF n = 0 THEN {<<>>}
    ELSE LET shorter == ListsUpTo(kind, n - 1) IN
         shorter \cup {Append(l, RecordOf(kind, j)) : l \in shorter, j \in RecordIds}

\* What the registry may hold beforehand: records of the kind from an earlier
\* sync, one since deleted at the provider, one of another kind.
HeldBefore(kind) ==
    LET other == IF kind = "domains" THEN "workers" ELSE "domains" IN
    {<<>>,
     <<RecordOf(kind, 1)>>,
     <<RecordOf(kind, RecordsPerKind + 1)>>,
     <<RecordOf(other, 1)>>,
     <<RecordOf(other, 1), RecordOf(kind, 1), RecordOf(kind, RecordsPerKind + 1)>>}

EmptySummary == [timestamp |-> 0, synced |-> EmptyDict, errors |-> EmptyDict, total |-> 0]

\* One call registry.sync_resources(resource_type, resources), as sync_all.py
\* lines 77-85 make it, and the registry applying the payload.
SyncOnce(lib) ==
    /\ tw.pc = "calling"
    /\ Len(tw.payloads) < 2
    /\ LET resource_type == ResourceTypeOf(tw.kind)
           payload       == SyncPayload(tw.records)
           r             == sync_resources(resource_type, tw.records, Applied, lib)
       IN
       tw' = [tw EXCEPT
              !.payloads = Append(tw.payloads, payload),
              !.held = ApplySync(tw.held, resource_type, payload),
              !.summaries = Append(tw.summaries,
                                   SyncedOrError(EmptySummary, tw.kind,
                                                 Len(tw.records), r))]
    /\ UNCHANGED othersOfTwice

InitTwice ==
    /\ ListenerStart
    /\ RegistryIdle
    /\ SyncIdle
    /\ SecretIdle
    /\ DeployIdle
    /\ PoolIdle
    /\ sb = NoRun
    /\ apiKey = "k1"
    /\ FetchIdle
    /\ AllIdle
    /\ \E kind \in Kinds :
          \E records \in ListsUpTo(kind, RecordsPerKind), before \in HeldBefore(kind) :
             tw = [pc |-> "calling", kind |-> kind, records |-> records,
                   before |-> before, held |-> before,
                   payloads |-> <<>>, summaries |-> <<>>]

NextTwice == \E lib \in RequestsVersions : SyncOnce(lib)

SpecTwice == InitTwice /\ [][NextTwice]_vars


(***************************************************************************)
(* deploy_with_full_integration (chittyos-cloudflare-mcp/server.py)        *)
(***************************************************************************)
\* How a service answers one request: no answer (the client raises), a status
\* that is not 200, or 200 with a body.
Unreachable == [status |-> "unreachable", body |-> None]

NotOk == [status |-> "503", body |-> None]

Ok(body) == [status |-> "200", body |-> body]

Scores == {0, 49, 50, 100}

TrustAnswers ==
    {Unreachable, NotOk, Ok(NotJson), Ok([status |-> "scored"])}
    \cup {Ok([score |-> n]) : n \in Scores}

ComplianceAnswers ==
    {Unreachable, NotOk, Ok(NotJson), Ok([status |-> "checked"]),
     Ok([compliant |-> TRUE]),
     Ok([compliant |-> FALSE, warnings |-> <<"privacy">>]),
     Ok([compliant |-> FALSE])}

\* The answers of the Cloudflare API to the PUT of the script: the result
\* member an object, null, or missing.
DeployAnswers ==
    {Unreachable, NotOk,
     Ok([success |-> TRUE, result |-> [id |-> "w1"]]),
     Ok([success |-> TRUE, result |-> None]),
     Ok([success |-> TRUE])}

LinkAnswers == {Unreachable, NotOk, Ok(NotJson), Ok([status |-> "linked"])}

AnchorAnswers == {Unreachable, NotOk, Ok(NotJson), Ok([status |-> "anchored"])}

\* try: ... return response.json() if response.status_code == 200 else
\* `otherwise`; except Exception: return `offline`.  response.json() raises
\* inside the try on a body that is not JSON.
ServiceCall(a, otherwise, offline) ==
    IF a.status = "unreachable" THEN offline
    ELSE IF a.status /= "200" THEN otherwise
    ELSE IF a.body = NotJson THEN offline
    ELSE a.body

get_trust_score(a) ==
    ServiceCall(a, [score |-> 100, status |-> "default"],
                   [score |-> 100, status |-> "offline"])

verify_compliance(a) ==
    ServiceCall(a, [compliant |-> TRUE, warnings |-> <<>>],
                   [compliant |-> TRUE, status |-> "unchecked"])

link_to_case(a, case_id) ==
    ServiceCall(a, [status |-> "pending"], [status |-> "offline", case_id |-> case_id])

anchor_to_blockchain(a) ==
    ServiceCall(a, [status |-> "pending"], [status |-> "offline", tx_hash |-> Null])

\* _make_request: raise_for_status, then the body, with chitty_metadata added
\* to a dict that has a result member; an httpx.HTTPError is re-raised.
\* response.json() on a body that is not JSON is left out.
_make_request(a) ==
    IF a.status = "unreachable" THEN [raised |-> TRUE, value |-> [exception |-> "ConnectError"]]
    ELSE IF a.status /= "200" THEN [raised |-> TRUE, value |-> [exception |-> "HTTPStatusError"]]
    ELSE IF "result" \in DOMAIN a.body
    THEN [raised |-> FALSE, value |-> a.body @@ [chitty_metadata |-> "chittyos"]]
    ELSE [raised |-> FALSE, value |-> a.body]

\* deploy_worker: ValueError without an account id, else the PUT.
deploy_worker(account_id, a) ==
    IF ~account_id THEN [raised |-> TRUE, value |-> [exception |-> "ValueError"]]
    ELSE _make_request(a)

\* result.get("result", {}).get("id")
DeploymentId(result) ==
    IF "result" \notin DOMAIN result THEN [raised |-> FALSE, value |-> Null]
    ELSE IF result.result = None THEN [raised |-> TRUE, value |-> [exception |-> "AttributeError"]]
    ELSE [raised |-> FALSE, value |-> Get(result.result, "id", Null)]

TrustTooLowStrict(trust) == Get(trust, "score", 100) <= 50

\* if trust.get("score", 100) < 50
TrustTooLow(trust) == Get(trust, "score", 100) < 50

\* if not compliance.get("compliant", True)
NotCompliant(compliance) == ~Get(compliance, "compliant", TRUE)

\* The call entered: nothing run yet.
DeployEntered(account_id) ==
    [pc |-> "trust", account_id |-> account_id, asked |-> <<>>, steps |-> <<>>,
     trust |-> None, compliance |-> None, result |-> None, case_link |-> None,
     blockchain |-> None, deployed |-> FALSE, raised |-> FALSE, returned |-> None]

\* Lines 327-330: get_trust_score and the first gate.
TrustStep(a) ==
    /\ dp.pc = "trust"
    /\ LET trust == get_trust_score(a) IN
       dp' = [dp EXCEPT
              !.asked = Append(dp.asked, a),
              !.steps = Append(dp.steps, "get_trust_score"),
              !.trust = trust,
              !.pc = IF TrustTooLow(trust) THEN "done" ELSE "compliance",
              !.returned = IF TrustTooLow(trust)
                           THEN [error |-> "Trust score too low for deployment"]
                           ELSE None]
    /\ UNCHANGED othersOfDeploy

\* Lines 332-338: verify_compliance and the second gate.
ComplianceStep(a) ==
    /\ dp.pc = "compliance"
    /\ LET compliance == verify_compliance(a) IN
       dp' = [dp EXCEPT
              !.asked = Append(dp.asked, a),
              !.steps = Append(dp.steps, "verify_compliance"),
              !.compliance = compliance,
              !.pc = IF NotCompliant(compliance) THEN "done" ELSE "deploy",
              !.returned = IF NotCompliant(compliance)
                           THEN [error |-> "Compliance check failed",
                                 issues |-> Get(compliance, "warnings", <<>>)]
                           ELSE None]
    /\ UNCHANGED othersOfDeploy

\* Line 341: deploy_worker; its exception leaves the function.
DeployStep(a) ==
    /\ dp.pc = "deploy"
    /\ LET r == deploy_worker(dp.account_id, a) IN
       dp' = [dp EXCEPT
              !.asked = Append(dp.asked, a),
              !.steps = Append(dp.steps, "deploy_worker"),
              !.deployed = ~r.raised,
              !.result = IF r.raised THEN None ELSE r.value,
              !.pc = IF r.raised THEN "done" ELSE "link",
              !.raised = r.raised,
              !.returned = IF r.raised THEN r.value ELSE None]
    /\ UNCHANGED othersOfDeploy

\* Line 344: link_to_case, then the details of lines 349-353 are built, where
\* the deployment id is read from the result.
LinkStep(a) ==
    /\ dp.pc = "link"
    /\ LET id == DeploymentId(dp.result) IN
       dp' = [dp EXCEPT
              !.asked = Append(dp.asked, a),
              !.steps = Append(dp.steps, "link_to_case"),
              !.case_link = link_to_case(a, "case-1"),
              !.pc = IF id.raised THEN "done" ELSE "anchor",
              !.raised = id.raised,
              !.returned = IF id.raised THEN id.value ELSE None]
    /\ UNCHANGED othersOfDeploy

\* Lines 347-362: anchor_to_blockchain and the return value.
AnchorStep(a) ==
    /\ dp.pc = "anchor"
    /\ LET blockchain == anchor_to_blockchain(a) IN
       dp' = [dp EXCEPT
              !.asked = Append(dp.asked, a),
              !.steps = Append(dp.steps, "anchor_to_blockchain"),
              !.blockchain = blockchain,
              !.pc = "done",
              !.returned = [deployment |-> dp.result, case_link |-> dp.case_link,
                            blockchain |-> blockchain, compliance |-> dp.compliance,
                            trust_score |-> dp.trust]]
    /\ UNCHANGED othersOfDeploy

InitDeploy ==
    /\ ListenerStart
    /\ RegistryIdle
    /\ SyncIdle
    /\ SecretIdle
    /\ TwiceIdle
    /\ PoolIdle
    /\ sb = NoRun
    /\ apiKey = "k1"
    /\ FetchIdle
    /\ AllIdle
    /\ \E account_id \in BOOLEAN : dp = DeployEntered(account_id)

NextDeploy ==
    \/ \E a \in TrustAnswers : TrustStep(a)
    \/ \E a \in ComplianceAnswers : ComplianceStep(a)
    \/ \E a \in DeployAnswers : DeployStep(a)
    \/ \E a \in LinkAnswers : LinkStep(a)
    \/ \E a \in AnchorAnswers : AnchorStep(a)

SpecDeploy == InitDeploy /\ [][NextDeploy]_vars


(***************************************************************************)
(* NeonDatabase (chittyos-openai-gpt/api/main.py)                          *)
(***************************************************************************)
\* Coroutines calling the one NeonDatabase object on one event loop. A
\* coroutine runs alone from one await that suspends it to the next:
\* asyncpg.create_pool, pool.acquire / the query, and pool.close.
MaxCalls == 2

Callers == 1..MaxCalls

\* execute, fetch and fetchrow differ only in the connection method called.
CallKinds == {"execute", "fetch", "fetchrow", "disconnect"}

NoCaller == [pc |-> "idle", kind |-> "none", ref |-> 0, result |-> "none"]

\* if not self.pool and self.database_url
ConnectCreates(pool, url) == pool = 0 /\ url

\* __init__: self.pool = None (written 0), and the connect of startup_event,
\* which creates the first pool or fails; pools are numbered as created.
DatabaseStart(url, connected) ==
    [pc |-> "serving", database_url |-> url,
     pool |-> IF ConnectCreates(0, url) /\ connected THEN 1 ELSE 0,
     made |-> IF ConnectCreates(0, url) /\ connected THEN 1 ELSE 0,
     open |-> IF ConnectCreates(0, url) /\ connected THEN {1} ELSE {},
     co |-> [i \in Callers |-> NoCaller], overlapped |-> FALSE]

InFlight(i) == db.co[i].pc \notin {"idle", "done"}

\* A query up to its first suspension: `if not self.pool: await self.connect()`
\* reaches create_pool, or raises 500 when connect did nothing; with a pool
\* held it goes on to acquire it.
BeginQuery(i, kind) ==
    /\ db.co[i].pc = "idle"
    /\ kind /= "disconnect"
    /\ db' = [db EXCEPT
              !.overlapped = db.overlapped \/ \E j \in Callers : InFlight(j),
              !.co[i] = IF db.pool = 0
                        THEN IF ConnectCreates(db.pool, db.database_url)
                             THEN [pc |-> "creating", kind |-> kind, ref |-> 0,
                                   result |-> "none"]
                             ELSE [pc |-> "done", kind |-> kind, ref |-> 0,
                                   result |-> "500 Database unavailable"]
                        ELSE [pc |-> "acquiring", kind |-> kind, ref |-> db.pool,
                              result |-> "none"]]
    /\ UNCHANGED othersOfPool

\* create_pool returns or raises: self.pool is assigned the new pool or None,
\* connect returns, and the query tests self.pool again.
PoolCreated(i, ok) ==
    /\ db.co[i].pc = "creating"
    /\ db' = IF ok
             THEN [db EXCEPT
                   !.made = db.made + 1,
                   !.open = db.open \cup {db.made + 1},
                   !.pool = db.made + 1,
                   !.co[i].pc = "acquiring",
                   !.co[i].ref = db.made + 1]
             ELSE [db EXCEPT
                   !.pool = 0,
                   !.co[i].pc = "done",
                   !.co[i].result = "500 Database unavailable"]
    /\ UNCHANGED othersOfPool

\* async with self.pool.acquire() as conn: return await conn.<method>(...);
\* a pool closed in the meantime refuses.
QueryRun(i) ==
    /\ db.co[i].pc = "acquiring"
    /\ db' = [db EXCEPT
              !.co[i].pc = "done",
              !.co[i].result = IF db.co[i].ref \in db.open THEN "rows"
                               ELSE "InterfaceError"]
    /\ UNCHANGED othersOfPool

\* disconnect up to `await self.pool.close()`.
BeginDisconnect(i) ==
    /\ db.co[i].pc = "idle"
    /\ db' = [db EXCEPT
              !.overlapped = db.overlapped \/ \E j \in Callers : InFlight(j),
              !.co[i] = IF db.pool /= 0
                        THEN [pc |-> "closing", kind |-> "disconnect", ref |-> db.pool,
                              result |-> "none"]
                        ELSE [pc |-> "done", kind |-> "disconnect", ref |-> 0,
                              result |-> "none"]]
    /\ UNCHANGED othersOfPool

\* close() returns: self.pool = None.
PoolClosed(i) ==
    /\ db.co[i].pc = "closing"
    /\ db' = [db EXCEPT
              !.open = db.open \ {db.co[i].ref},
              !.pool = 0,
              !.co[i].pc = "done"]
    /\ UNCHANGED othersOfPool

InitPool ==
    /\ ListenerStart
    /\ RegistryIdle
    /\ SyncIdle
    /\ SecretIdle
    /\ TwiceIdle
    /\ DeployIdle
    /\ sb = NoRun
    /\ apiKey = "k1"
    /\ FetchIdle
    /\ AllIdle
    /\ \E url \in BOOLEAN, connected \in BOOLEAN : db = DatabaseStart(url, connected)

NextPool ==
    \/ \E i \in Callers, kind \in CallKinds : BeginQuery(i, kind)
    \/ \E i \in Callers, ok \in BOOLEAN : PoolCreated(i, ok)
    \/ \E i \in Callers : QueryRun(i)
    \/ \E i \in Callers : BeginDisconnect(i)
    \/ \E i \in Callers : PoolClosed(i)

SpecPool == InitPool /\ [][NextPool]_vars



(***************************************************************************)
(* Properties of the webhook listener                                      *)
(***************************************************************************)
\* The step handles a request to the endpoint `ep`.
Handles(ep) == resp'.seq # resp.seq /\ resp'.endpoint = ep

\* The header equals the hex HMAC-SHA256 of the raw body under the secret.
SignatureMatches(r) == r.sig = HexSig(HmacHex(secret, r.body))

TaskStarted == Len(tasks') = Len(tasks) + 1 /\ SubSeq(tasks', 1, Len(tasks)) = tasks

Finished(t) == t.pc \in {"done", "failed", "returned"}

CallsOf(i) == {c \in DOMAIN regCalls : regCalls[c].task = i}
LinesOf(i) == {l \in DOMAIN eventLog : eventLog[l].task = i}

\* C1: POST /webhook/cloudflare parses the payload only when X-Signature-256
\* equals the hex HMAC of the raw body under the secret; every other request is
\* answered 403, its payload is not parsed, and it starts no task, makes no
\* registry call and appends nothing to webhook_events.log.
C1_SignatureGate ==
    [][Handles("webhook") =>
          /\ resp'.parsed => SignatureMatches(resp')
          /\ ~SignatureMatches(resp') =>
                /\ resp'.code = 403
                /\ ~resp'.parsed
                /\ UNCHANGED <<tasks, regCalls, registry, eventLog>>]_vars

\* C2: every webhook request gets 403 iff the signature is bad, otherwise 500 iff
\* parsing or processing raises, otherwise 202 iff the event type is a key of
\* the table, otherwise 200; a task is started iff the response is 202.
C2_StatusCodes ==
    [][Handles("webhook") =>
          LET r == resp'
              d == json_loads(r.body)
          IN
          /\ r.code = IF ~SignatureMatches(r) THEN 403
                      ELSE IF ~d.valid \/ d.event.shape # "object" THEN 500
                      ELSE IF d.event.type \in DOMAIN event_mapping THEN 202
                      ELSE 200
          /\ TaskStarted <=> r.code = 202
          /\ ~TaskStarted => UNCHANGED tasks]_vars

\* C3: a correctly signed, well-formed event whose type is no key of the table
\* is answered 200 'ignored' and changes nothing of the listener: no task, no
\* registry call, no line in webhook_events.log.
C3_UnknownEventIgnored ==
    [][(/\ Handles("webhook")
        /\ SignatureMatches(resp')
        /\ json_loads(resp'.body).valid
        /\ json_loads(resp'.body).event.shape = "object"
        /\ json_loads(resp'.body).event.type \notin DOMAIN event_mapping)
       => /\ resp'.code = 200
          /\ resp'.status = "ignored"
          /\ UNCHANGED <<secret, apiKey, tasks, registry, regCalls, eventLog, syncThreads>>]_vars

\* C3 witness: an unknown event type was answered 200 while the task of an
\* earlier, accepted event was between its registry call and its log line.
C3_Witness ==
    /\ resp.endpoint = "webhook"
    /\ resp.code = 200
    /\ resp.status = "ignored"
    /\ json_loads(resp.body).event.type = "dns.record.changed"
    /\ Len(tasks) = 1
    /\ tasks[1].pc = "called"

\* C4: for every recognised event the background task makes exactly one registry
\* call, register_resource for create/update and delete_resource(id) for delete,
\* with the kind of the table entry, and then appends one record to
\* webhook_events.log; no other registry operation is issued.
C4_OneRegistryCallPerEvent ==
    /\ \A c \in DOMAIN regCalls : regCalls[c].op \in {"register_resource", "delete_resource"}
    /\ \A i \in DOMAIN tasks :
          /\ Cardinality(CallsOf(i)) <= 1
          /\ Cardinality(LinesOf(i)) <= Cardinality(CallsOf(i))
          /\ \A c \in CallsOf(i) :
                /\ regCalls[c].op = IF tasks[i].action = "delete" THEN "delete_resource"
                                    ELSE "register_resource"
                /\ regCalls[c].id = tasks[i].resource_data.id
                /\ regCalls[c].op = "register_resource" =>
                      regCalls[c].kind = tasks[i].resource_type
          /\ Finished(tasks[i]) =>
                /\ Cardinality(CallsOf(i)) = 1
                /\ Cardinality(LinesOf(i)) = 1

\* C6: a recognised, correctly signed event is answered 202 before and whatever
\* the registry call does, and every event answered 202 yields exactly one record
\* in webhook_events.log, written by its task, whether the action succeeded or
\* failed.
C6_EveryAcceptedEventLogged ==
    \A i \in DOMAIN tasks :
        /\ Cardinality(LinesOf(i)) <= 1
        /\ Finished(tasks[i]) =>
              \E l \in DOMAIN eventLog :
                  /\ LinesOf(i) = {l}
                  /\ eventLog[l].result = tasks[i].result
                  /\ eventLog[l].result \in RegistryOutcomes


\* The registry calls that succeeded for resource id r, by their place in the
\* order of completion.
AppliedCalls(r) == {c \in DOMAIN regCalls : regCalls[c].id = r /\ regCalls[c].out = "ok"}

Latest(S) == CHOOSE c \in S : \A d \in S : d <= c

\* C5: the registry calls of the tasks of two accepted events for one resource id
\* are not ordered by arrival: every started task may make its call next, whatever
\* the state of the tasks started before it, and the registry holds what the call
\* that completed last wrote, so the earlier event's write can be the final one.
C5_CallsNotOrderedByArrival ==
    /\ \A i \in DOMAIN tasks : tasks[i].pc = "start" => ENABLED TaskCall(i)
    /\ \A r \in ResourceIds :
          registry[r] =
              IF AppliedCalls(r) = {} THEN "absent"
              ELSE LET c == regCalls[Latest(AppliedCalls(r))] IN
                   IF c.op = "delete_resource" THEN "absent" ELSE c.kind

\* C5 witness: zone.created then zone.deleted for r1 were both accepted, the
\* delete's call completed first, and the registry ends holding r1.
C5_Witness ==
    /\ Len(tasks) = 2
    /\ tasks[1].action = "create" /\ tasks[2].action = "delete"
    /\ tasks[1].resource_data.id = "r1" /\ tasks[2].resource_data.id = "r1"
    /\ tasks[1].pc = "done" /\ tasks[2].pc = "done"
    /\ tasks[1].result = "ok" /\ tasks[2].result = "ok"
    /\ regCalls[1].task = 2 /\ regCalls[2].task = 1
    /\ registry["r1"] = "domain"

(***************************************************************************)
(* Properties of the manual-sync endpoint                                  *)
(***************************************************************************)
SyncStarted ==
    /\ Len(syncThreads') = Len(syncThreads) + 1
    /\ SubSeq(syncThreads', 1, Len(syncThreads)) = syncThreads
    /\ syncThreads'[Len(syncThreads')].resource_type = resp'.rtype

\* C7: POST /webhook/manual-sync/<resource_type> answers 202 'sync_started' and
\* starts exactly one background sync iff X-API-Key equals the configured secret
\* and the type is one of domains, workers, pages, all; a key mismatch gives 401
\* (whatever the type), an authorised request with another type gives 400, and
\* neither rejected request starts a thread.
C7_ManualSyncGate ==
    [][Handles("manual-sync") =>
          LET r == resp' IN
          /\ r.code = IF r.key # apiKey THEN 401
                      ELSE IF r.rtype \notin {"domains", "workers", "pages", "all"} THEN 400
                      ELSE 202
          /\ r.code = 202 => r.status = "sync_started" /\ SyncStarted
          /\ r.code # 202 => UNCHANGED syncThreads]_vars

\* C7 witness: after one sync was started, a request with a wrong key and an
\* invalid type was answered 401.
C7_Witness ==
    /\ resp.endpoint = "manual-sync"
    /\ resp.code = 401
    /\ resp.key # apiKey
    /\ resp.rtype = "bogus"
    /\ Len(syncThreads) = 1


(***************************************************************************)
(* Properties of _paginated_fetch                                          *)
(***************************************************************************)
\* C8: against a provider serving total_count items in consecutive pages of the
\* requested size, _paginated_fetch returns exactly the total_count items, each
\* once and in order, for every total_count >= 0 and every page size, the
\* default 50 or one supplied through params.
C8_ReturnsEveryItemOnce ==
    (pf.pc = "returned" /\ provider.info) =>
        pf.returned = [k \in 1..provider.total |-> k]

\* What the page loop has requested and how it ended, at any moment.
PageLoopShape ==
    LET reported == IF provider.info THEN provider.total ELSE 0
        n        == Len(pf.requests)
    IN
    /\ pf.requests = [k \in 1..n |-> k]
    /\ pf.pc = "loop" => pf.page = n + 1 /\ (n = 0 \/ n * 50 < reported)
    /\ pf.pc = "returned" =>
          /\ n = IF reported = 0 THEN 1 ELSE CeilDiv(reported, 50)
          /\ provider.failPage \notin 1..n
          /\ reported = 0 =>
                pf.returned = PageItems(1, IF params # 0 THEN params ELSE 50, provider.total)
    /\ pf.pc = "raised" =>
          /\ provider.failPage = n
          /\ pf.returned = <<>>

\* C9: the page loop always terminates; with total_count 0 or no result_info it
\* issues one request and returns that page, for a fixed total T > 0 it issues
\* ceil(T/50) requests, pages 1, 2, ... in order, and a failing page ends the
\* loop by raising, nothing being returned.
C9_PageLoopTerminates ==
    /\ []PageLoopShape
    /\ <>(pf.pc \in {"returned", "raised"})

\* C9 witness: a fetch of more than 100 items returned after three requests, the
\* provider's only failing page lying beyond the last one.
C9_Witness ==
    /\ pf.pc = "returned"
    /\ provider.info
    /\ provider.total > 100
    /\ pf.requests = <<1, 2, 3>>
    /\ provider.failPage = 4

(***************************************************************************)
(* Properties of get_all_resources                                         *)
(***************************************************************************)
\* The kinds whose fetch failed: the list call failed, or (workers) a detail
\* call raised.
FailedKinds ==
    {k \in Kinds :
        /\ outcome[k].list # "unasked"
        /\ \/ outcome[k].list # "ok"
           \/ \E j \in DOMAIN outcome[k].detail :
                 outcome[k].detail[j] \in {"network", "no_success_field"}}

\* The provider items of kind k that its fetch keeps: all of them, and for
\* workers the scripts whose detail call answered 200 with success true.
KeptItems(k) ==
    {j \in 1..outcome[k].n : k = "workers" => outcome[k].detail[j] = "ok"}

\* C10: whatever subset of the six fetches fails, get_all_resources does not
\* raise and returns all six keys, a failed kind mapped to [] and every other
\* kind to the records its own fetch returned; the six fetches are attempted in
\* the order domains, workers, pages, r2_buckets, kv_namespaces, durable_objects.
C10_FetchIsolation ==
    /\ ga.pc # "raised"
    /\ ga.attempts = SubSeq(<<"domains", "workers", "pages", "r2_buckets",
                              "kv_namespaces", "durable_objects">>, 1, Len(ga.attempts))
    /\ DOMAIN ga.resources = {"domains", "workers", "pages", "r2_buckets",
                              "kv_namespaces", "durable_objects"}
    /\ ga.pc = "returned" => Len(ga.attempts) = 6
    /\ \A k \in Kinds :
          IF k \in FailedKinds \/ outcome[k].list = "unasked"
          THEN ga.resources[k] = <<>>
          ELSE /\ Len(ga.resources[k]) = Cardinality(KeptItems(k))
               /\ \A x \in DOMAIN ga.resources[k] :
                     \E j \in KeptItems(k) :
                        /\ Cardinality({y \in KeptItems(k) : y < j}) = x - 1
                        /\ ga.resources[k][x].id = j
                        /\ ga.resources[k][x].resource_type =
                              CASE k = "domains"       -> "domain"
                                [] k = "workers"       -> "worker"
                                [] k = "pages"         -> "pages"
                                [] k = "r2_buckets"    -> "r2_bucket"
                                [] k = "kv_namespaces" -> "kv_namespace"
                                [] OTHER               -> "durable_object"

\* C10 witness: domains failed on the network and pages on its status, and the
\* call returned with the workers and the durable objects it fetched.
C10_Witness ==
    /\ ga.pc = "returned"
    /\ outcome["domains"].list = "network"
    /\ outcome["pages"].list = "status"
    /\ outcome["r2_buckets"].list = "success_false"
    /\ Len(ga.resources["workers"]) = RecordsPerKind - 1
    /\ Len(ga.resources["durable_objects"]) = RecordsPerKind
    /\ ga.resources["domains"] = <<>>


\* C11: in get_workers a script whose detail call fails, by a non-200 status, a
\* body with success false or without success, or an exception of the call, is
\* the only one omitted: every script whose detail call succeeded is returned.
C11_DetailFailureOmitsOnlyThatScript ==
    outcome["workers"].list = "ok" =>
        /\ Len(ga.resources["workers"]) = Cardinality(KeptItems("workers"))
        /\ \A j \in KeptItems("workers") :
              \E x \in DOMAIN ga.resources["workers"] : ga.resources["workers"][x].id = j


(***************************************************************************)
(* Properties of the registry client                                       *)
(***************************************************************************)
Called == rc.call.op # "none"

\* The fields that identify the call in a failure result.
IdentifiedBy(v) ==
    CASE rc.call.op = "register_resource" -> Get(v, "resource", "") = rc.call.name
      [] rc.call.op \in {"update_resource", "delete_resource"} ->
             Get(v, "resource_id", "") = rc.call.resource_id
      [] rc.call.op = "bulk_register" -> Get(v, "count", -1) = rc.call.count
      [] OTHER -> /\ Get(v, "resource_type", "") = ResourceTypeOf(rc.call.resource_type)
                  /\ Get(v, "count", -1) = rc.call.count

FailureValue ==
    /\ ~rc.raised
    /\ Get(rc.value, "success", TRUE) = FALSE
    /\ "error" \in DOMAIN rc.value
    /\ IdentifiedBy(rc.value)

\* C12: a write operation that meets a network failure or a status outside
\* 2xx raises nothing and returns success false, an error message and the
\* fields identifying the call; on a 2xx status it returns the response body.
C12_FailuresAreValues ==
    Called =>
        /\ rc.status # "2xx" => FailureValue
        /\ rc.status = "2xx" => ~rc.raised /\ rc.value = rc.body

\* C12, amended: the same for a network failure or a 4xx/5xx status, the
\* statuses raise_for_status rejects, and for a 2xx status with a JSON body.
C12_ErrorStatusesAreValues ==
    Called =>
        /\ rc.status \in {"network", "4xx", "5xx"} => FailureValue
        /\ rc.status = "2xx" /\ rc.body # NotJson => ~rc.raised /\ rc.value = rc.body

C12_Witness ==
    /\ rc.call.op = "sync_resources"
    /\ rc.status = "5xx"
    /\ rc.body = [success |-> TRUE]
    /\ rc.call.count = RecordsPerKind
    /\ FailureValue


(***************************************************************************)
(* Properties of sync_all_resources                                        *)
(***************************************************************************)
RunDone == sa.pc = "done"

Requested == {sa.types_to_sync[p] : p \in DOMAIN sa.types_to_sync}

\* The registry reported success for the call: it returned a body whose
\* success member is true.
ReportedSuccess(c) == ~c.raised /\ "success" \in DOMAIN c.value /\ c.value.success = TRUE

\* The message of a call that did not: str(e), or the error member (None
\* when the body has none).
MessageOf(c) ==
    IF c.raised THEN c.value.exception
    ELSE IF "error" \in DOMAIN c.value THEN c.value.error ELSE Null

CallsFor(k) == {x \in DOMAIN sa.calls : sa.calls[x].key = k}

LastCallFor(k) == sa.calls[CHOOSE x \in CallsFor(k) : \A y \in CallsFor(k) : y <= x]

\* C13: at the end of a run, whatever list of kinds was requested, no kind is
\* a key of both summary.synced and summary.errors.
C13_SyncedAndErrorsDisjoint ==
    RunDone => DOMAIN sa.summary.synced \cap DOMAIN sa.summary.errors = {}

\* C14: the run returns 0 exactly when no requested kind failed, that is when
\* summary.errors is empty, and 1 otherwise; the kinds that synced stay in
\* summary.synced when another kind fails.
C14_ExitStatus ==
    RunDone =>
        /\ sa.returned \in {0, 1}
        /\ sa.returned = 0 <=> DOMAIN sa.summary.errors = {}
        /\ sa.returned = 0 <=> \A x \in DOMAIN sa.calls : ReportedSuccess(sa.calls[x])
        /\ \A x \in DOMAIN sa.calls :
              ReportedSuccess(sa.calls[x]) =>
                  /\ sa.calls[x].key \in DOMAIN sa.summary.synced
                  /\ sa.summary.synced[sa.calls[x].key] = sa.calls[x].count

C14_Witness ==
    /\ RunDone
    /\ sa.returned = 1
    /\ "domains" \in DOMAIN sa.summary.synced
    /\ "workers" \in DOMAIN sa.summary.errors

RECURSIVE TotalFrom(_, _)
TotalFrom(i, synced) ==
    IF i > Len(KindOrder) THEN 0
    ELSE (IF KindOrder[i] \in DOMAIN synced THEN synced[KindOrder[i]] ELSE 0)
         + TotalFrom(i + 1, synced)

\* C15: at the end of a run, for every requested known kind k with n > 0
\* fetched records, synced[k] = n if the registry's answer to the (last) sync
\* call for k reported success, and otherwise errors[k] is the message of
\* that failure; total is the sum of the values of synced.
C15_SummaryContent ==
    RunDone =>
        /\ \A k \in Requested \cap Kinds :
              Len(sa.all_resources[k]) > 0 =>
                  /\ CallsFor(k) # {}
                  /\ IF ReportedSuccess(LastCallFor(k))
                     THEN /\ k \in DOMAIN sa.summary.synced
                          /\ sa.summary.synced[k] = Len(sa.all_resources[k])
                     ELSE /\ k \in DOMAIN sa.summary.errors
                          /\ sa.summary.errors[k] = MessageOf(LastCallFor(k))
        /\ sa.summary.total = TotalFrom(1, sa.summary.synced)

C15_Witness ==
    /\ RunDone
    /\ sa.types_to_sync = KindOrder
    /\ DOMAIN sa.summary.synced = {"domains", "durable_objects"}
    /\ "workers" \in DOMAIN sa.summary.errors
    /\ sa.summary.errors["workers"] = "JSONDecodeError"
    /\ sa.summary.total = 2 * RecordsPerKind


\* The positions of the request list the loop has passed that name a known
\* kind with at least one fetched record.
DuePositions ==
    {p \in 1..(sa.i - 1) :
        /\ sa.resource_types # <<>> => sa.resource_types[p] \in Kinds
        /\ Len(sa.all_resources[IF sa.resource_types # <<>> THEN sa.resource_types[p]
                                ELSE KindOrder[p]]) > 0}

\* C16: the run takes the requested kinds one after the other in the order
\* given, the six kinds in table order when none is given; a call that fails
\* or raises does not end the loop: every requested kind with at least one
\* record gets its sync_resources call, after those of the kinds before it.
C16_OrderAndIsolation ==
    sa.pc \in {"loop", "open", "dump", "done"} =>
        /\ sa.pc # "loop" =>
              sa.i = 1 + (IF sa.resource_types # <<>> THEN Len(sa.resource_types)
                          ELSE Len(KindOrder))
        /\ {sa.calls[x].pos : x \in DOMAIN sa.calls} = DuePositions
        /\ \A x, y \in DOMAIN sa.calls : x < y => sa.calls[x].pos < sa.calls[y].pos
        /\ \A x \in DOMAIN sa.calls :
              /\ sa.calls[x].key = (IF sa.resource_types # <<>> THEN sa.resource_types
                                    ELSE KindOrder)[sa.calls[x].pos]
              /\ sa.calls[x].resource_type = ResourceTypeOf(sa.calls[x].key)
              /\ sa.calls[x].count = Len(sa.all_resources[sa.calls[x].key])

C16_Witness ==
    /\ RunDone
    /\ sa.resource_types = <<"workers", "domains">>
    /\ Len(sa.calls) = 2
    /\ sa.calls[1].key = "workers" /\ sa.calls[1].raised
    /\ sa.calls[2].key = "domains" /\ ReportedSuccess(sa.calls[2])

\* C17: a kind whose fetched list is empty gets no registry call and no entry
\* in synced or errors, and neither does a requested name that is not a kind.
C17_EmptyAndUnknownSkipped ==
    sa.pc \in {"loop", "open", "dump", "done"} =>
        \A name \in Requested \cup Kinds :
            (name \notin Kinds \/ Len(sa.all_resources[name]) = 0) =>
                /\ name \notin DOMAIN sa.summary.synced
                /\ name \notin DOMAIN sa.summary.errors
                /\ CallsFor(name) = {}

C17_Witness ==
    /\ RunDone
    /\ sa.resource_types = <<"bogus", "domains">>
    /\ sa.all_resources["domains"] = <<>>
    /\ sa.all_resources["workers"] # <<>>
    /\ sa.calls = <<>>
    /\ sa.returned = 0


\* The summary a reader parses out of the lines of one pretty-printed document.
LinesOfPart(block, part) == {x \in DOMAIN block : block[x].part = part}

WellFormed(block) ==
    /\ Len(block) >= 2
    /\ block[1].part = "{"
    /\ block[Len(block)].part = "}"
    /\ \A x \in 2..(Len(block) - 1) : block[x].part \notin {"{", "}"}
    /\ LinesOfPart(block, "timestamp") # {}
    /\ LinesOfPart(block, "total") # {}

EntriesOf(block, part, numeric) ==
    [k \in {block[x].key : x \in LinesOfPart(block, part)} |->
        LET l == block[CHOOSE x \in LinesOfPart(block, part) : block[x].key = k] IN
        IF numeric THEN l.num ELSE l.str]

ParseSummary(block) ==
    [timestamp |-> block[CHOOSE x \in LinesOfPart(block, "timestamp") : TRUE].num,
     synced    |-> EntriesOf(block, "synced_entry", TRUE),
     errors    |-> EntriesOf(block, "errors_entry", FALSE),
     total     |-> block[CHOOSE x \in LinesOfPart(block, "total") : TRUE].num]

Suffix(log, from) == SubSeq(log, from, Len(log))

LogStep == sa.pc = "loop" /\ sa'.pc = "open"

ReturnStep == sa.pc # "done" /\ sa'.pc = "done"

\* The snapshot file holds this run's summary and fetched set and nothing else.
SnapshotOfRun(file, run) ==
    /\ file.state = "complete"
    /\ DOMAIN file = {"state", "timestamp", "resources", "summary"}
    /\ file.summary = run.summary
    /\ file.resources = run.all_resources

RunSideEffects ==
    /\ syncLog' # syncLog => LogStep
    /\ LogStep =>
          /\ Len(syncLog') > Len(syncLog)
          /\ SubSeq(syncLog', 1, Len(syncLog)) = syncLog
          /\ WellFormed(Suffix(syncLog', Len(syncLog) + 1))
          /\ ParseSummary(Suffix(syncLog', Len(syncLog) + 1)) = sa'.summary
          /\ snapshot' = snapshot
    /\ snapshot' # snapshot => sa.pc \in {"open", "dump"} /\ syncLog' = syncLog
    /\ ReturnStep => SnapshotOfRun(snapshot', sa') /\ snapshot' # snapshot

\* C18: a run appends its summary to sync_all.log, leaving what the file held
\* unchanged, and only then replaces full_sync_snapshot.json by an object
\* holding this run's summary and this run's fetched resources; a run that
\* has returned has made both writes, with or without errors.
C18_RunSideEffects ==
    /\ [][RunSideEffects]_vars
    /\ [](RunDone =>
            /\ SnapshotOfRun(snapshot, sa)
            /\ \E from \in DOMAIN syncLog :
                  /\ WellFormed(Suffix(syncLog, from))
                  /\ ParseSummary(Suffix(syncLog, from)) = sa.summary)

C18_Witness ==
    /\ RunDone
    /\ runs = 2
    /\ sa.returned = 1
    /\ "domains" \in DOMAIN sa.summary.synced
    /\ snapshot.resources["pages"] = <<>>
    /\ snapshot.summary = sa.summary
    /\ SubSeq(syncLog, 1, Len(json_dumps(EarlierSummary))) = json_dumps(EarlierSummary)
    /\ Len(syncLog) > Len(json_dumps(EarlierSummary))


\* A line that is by itself a complete JSON document.  json_dumps writes the
\* opening brace, each member and the closing brace on lines of their own.
IsJsonDocument(line) == line.part = "document"

\* C19: each run appends exactly one line to sync_all.log and every line of
\* the file is a complete JSON document, so that the file has as many lines
\* as runs have completed.
C19_OneLinePerRun ==
    RunDone =>
        /\ Len(syncLog) = runs
        /\ \A x \in DOMAIN syncLog : IsJsonDocument(syncLog[x])

(***************************************************************************)
(* Properties of GET /status                                               *)
(***************************************************************************)
StatusStep == statusResp' # statusResp

\* Every member of the stored summary appears in the response with its value.
ReportsSummary(json, summary) ==
    /\ "resources_synced" \in DOMAIN json /\ json.resources_synced = summary.total
    /\ "errors" \in DOMAIN json /\ json.errors = summary.errors
    /\ "synced" \in DOMAIN json /\ json.synced = summary.synced
    /\ "last_sync" \in DOMAIN json /\ json.last_sync = summary.timestamp

\* C20: GET /status answers 200 with last_sync null and the no-sync-yet
\* message when no snapshot file exists, and otherwise answers 200 with every
\* member of the summary stored in the snapshot (timestamp, synced, errors,
\* total) unchanged.
C20_StatusReportsSummary ==
    [][StatusStep =>
          /\ snapshot.state = "absent" =>
                /\ statusResp'.code = 200
                /\ statusResp'.json.last_sync = Null
                /\ "message" \in DOMAIN statusResp'.json
          /\ snapshot.state = "complete" =>
                /\ statusResp'.code = 200
                /\ ReportsSummary(statusResp'.json, snapshot.summary)]_vars


(***************************************************************************)
(* Properties of _get_secret                                               *)
(***************************************************************************)
\* The variable a reference falls back to: its last path segment in upper
\* case with underscores for spaces.
FallbackName(reference) ==
    CASE reference = ApiKeyReference -> <<"G", "L", "O", "B", "A", "L", "_", "A", "P", "I", "_", "K", "E", "Y">>
      [] reference = EmailReference  -> <<"E", "M", "A", "I", "L">>
      [] OTHER                       -> <<"A", "C", "C", "O", "U", "N", "T", "_", "I", "D">>

\* C22: _get_secret returns the secret manager's value when the lookup
\* succeeds; when the lookup fails, by a non-zero exit or because the
\* command cannot be run, it raises nothing and returns the value of the
\* fallback environment variable, or the empty string when that is unset.
C22_CredentialFallback ==
    gs.op # "none" =>
        /\ ~gs.raised
        /\ gs.op = "ok" => gs.value = (IF gs.stdout = <<>> THEN <<>> ELSE <<"s", "k">>)
        /\ gs.op # "ok" =>
              gs.value = (IF FallbackName(gs.reference) \in DOMAIN gs.env
                          THEN gs.env[FallbackName(gs.reference)] ELSE <<>>)

\* C21: the health check is advisory. A run whose health probe returned
\* anything at all (200, another status, no answer) and the run given the same
\* arguments, provider answers and registry answers whose probe returned 200
\* are at the same step with the same fetched resources, the same registry
\* calls with the same results, the same summary and the same exit status.
C21_HealthCheckAdvisory ==
    /\ sa.pc = sb.pc
    /\ sa.types_to_sync = sb.types_to_sync
    /\ sa.i = sb.i
    /\ sa.all_resources = sb.all_resources
    /\ sa.calls = sb.calls
    /\ sa.summary = sb.summary
    /\ sa.returned = sb.returned

C21_Witness ==
    /\ RunDone
    /\ sb.pc = "done"
    /\ sa.health /= sb.health
    /\ sa.calls /= <<>>
    /\ sa.returned = 1

\* The number of records the registry holds under a resource type and id.
HeldCount(held, record) == Cardinality({i \in DOMAIN held : held[i] = record})

\* C23: sync_resources called twice in succession with the same list, against
\* a registry that applies a full sync as a replacement: every call sends the
\* whole list with sync_mode full, every call is recorded as synced with the
\* length of the list, and after each call the registry holds every record of
\* the list exactly once.
C23_SyncIdempotent ==
    /\ \A n \in DOMAIN tw.payloads :
          /\ tw.payloads[n].resources = tw.records
          /\ tw.payloads[n].sync_mode = "full"
          /\ tw.summaries[n].errors = EmptyDict
          /\ tw.kind \in DOMAIN tw.summaries[n].synced
          /\ tw.summaries[n].synced[tw.kind] = Len(tw.records)
    /\ tw.payloads /= <<>> =>
          \A j \in DOMAIN tw.records : HeldCount(tw.held, tw.records[j]) = 1

C23_Witness ==
    /\ Len(tw.payloads) = 2
    /\ Len(tw.records) = RecordsPerKind
    /\ \E j \in DOMAIN tw.records : HeldCount(tw.before, tw.records[j]) = 1

LinesOfTask(i) == {n \in DOMAIN eventLog : eventLog[n].task = i}

\* The tasks whose registry call has returned.
CompletedCall == {i \in DOMAIN tasks : tasks[i].pc \in {"called", "done"}}

\* C25: concurrent log writers. Under every interleaving of the background
\* tasks, every line of webhook_events.log is the complete record of one task
\* whose registry call returned (its action, resource type, resource id and
\* result), no task has more than one line, every task that has finished has
\* its line, and once no task is between its registry call and its append the
\* number of lines is the number of tasks that completed their registry call.
C25_ConcurrentLogWriters ==
    /\ \A n \in DOMAIN eventLog :
          LET l == eventLog[n] IN
          /\ DOMAIN l = {"task", "action", "resource_type", "resource_id", "result"}
          /\ l.task \in CompletedCall
          /\ tasks[l.task].pc = "done"
          /\ l.action = tasks[l.task].action
          /\ l.resource_type = tasks[l.task].resource_type
          /\ l.resource_id = tasks[l.task].resource_data.id
          /\ l.result = tasks[l.task].result
          /\ \E c \in DOMAIN regCalls :
                regCalls[c].task = l.task /\ regCalls[c].out = l.result
    /\ \A i \in DOMAIN tasks :
          Cardinality(LinesOfTask(i)) = IF tasks[i].pc = "done" THEN 1 ELSE 0
    /\ (\A i \in DOMAIN tasks : tasks[i].pc /= "called") =>
          Len(eventLog) = Cardinality(CompletedCall)

\* Two tasks have logged, the one accepted second first.
C25_Witness ==
    /\ Len(eventLog) = 2
    /\ eventLog[1].task > eventLog[2].task
    /\ \A i \in DOMAIN tasks : tasks[i].pc = "done"

\* C26: a GET /status handled while a run is overwriting the snapshot file
\* answers 200 and reports from a complete snapshot, the previous one or the
\* new one (its total and its errors), never from a file emptied or partly
\* written, and never answers with an error.
C26_StatusDuringOverwrite ==
    [][StatusStep =>
          /\ statusResp'.code = 200
          /\ snapshot.state \in {"absent", "complete"}
          /\ snapshot.state = "complete" =>
                /\ statusResp'.json.resources_synced = snapshot.summary.total
                /\ statusResp'.json.errors = snapshot.summary.errors]_vars

\* The kinds whose fetch failed in the run.
FetchFailed == {k \in Kinds : outcome[k].list /= "ok"}

\* C27: a fetch failure is invisible in the result of a run. A kind whose
\* fetch failed is fetched as the empty list, gets no registry call and no
\* entry in synced or errors, whatever the provider holds of it; and a run in
\* which every registry call made reported success returns 0 with an empty
\* errors map, however many fetches failed.
C27_FetchFailureInvisible ==
    RunDone =>
       /\ \A k \in FetchFailed :
             /\ sa.all_resources[k] = <<>>
             /\ CallsFor(k) = {}
             /\ k \notin DOMAIN sa.summary.synced
             /\ k \notin DOMAIN sa.summary.errors
       /\ (\A n \in DOMAIN sa.calls : ReportedSuccess(sa.calls[n])) =>
             /\ sa.returned = 0
             /\ sa.summary.errors = EmptyDict

\* A run returned 0 although fetches failed for kinds it was asked to sync and
\* of which the provider holds records, a registry call having succeeded.
C27_Witness ==
    /\ RunDone
    /\ sa.returned = 0
    /\ sa.calls /= <<>>
    /\ \E k \in FetchFailed :
          /\ outcome[k].n > 0
          /\ \E n \in DOMAIN sa.types_to_sync : sa.types_to_sync[n] = k

\* C28: with no REGISTRY_API_KEY configured (the empty string), a manual-sync
\* request whose X-API-Key is absent or empty (read as the empty string) is
\* authorised: it is answered 202 and starts one sync for a valid resource
\* type (400 for another), while every request with a non-empty key is
\* answered 401 and starts nothing.
C28_NoSecretConfigured ==
    [][Handles("manual-sync") /\ apiKey = "" =>
          LET r == resp' IN
          /\ r.key = "" =>
                /\ r.code = IF r.rtype \in valid_types THEN 202 ELSE 400
                /\ r.code = 202 => r.status = "sync_started" /\ SyncStarted
          /\ r.key /= "" =>
                /\ r.code = 401
                /\ UNCHANGED syncThreads]_vars

\* No secret configured: a request without key started a sync, and a request
\* with a key was then refused.
C28_Witness ==
    /\ apiKey = ""
    /\ resp.endpoint = "manual-sync"
    /\ resp.code = 401
    /\ resp.key /= ""
    /\ Len(syncThreads) = 1
    /\ syncThreads[1].resource_type = "all"


(***************************************************************************)
(* Properties of deploy_with_full_integration                              *)
(***************************************************************************)
StepOrder == <<"get_trust_score", "verify_compliance", "deploy_worker",
               "link_to_case", "anchor_to_blockchain">>

IsPrefix(s, t) == Len(s) <= Len(t) /\ SubSeq(t, 1, Len(s)) = s

Invoked(step) == \E n \in DOMAIN dp.steps : dp.steps[n] = step

\* The service did not answer, or answered with a status that is not 200.
OutOfService(a) == a.status /= "200"

GatesPassed ==
    /\ Get(dp.trust, "score", 100) >= 50
    /\ Get(dp.compliance, "compliant", TRUE)

\* C29: the steps run in the order trust, compliance, deploy, link, anchor;
\* deploy_worker is invoked exactly when the trust score is at least 50 and
\* the compliance result is compliant, and otherwise an error is returned and
\* nothing is deployed; a trust or verify service that is unreachable or
\* answers non-200 yields the default (score 100, compliant true) and the call
\* goes on to the next step; once the worker is deployed, no answer or failure
\* of the link and anchor services keeps the call from returning the
\* deployment, and no later step removes it.
C29_DeploymentGate ==
    /\ IsPrefix(dp.steps, StepOrder)
    /\ Invoked("deploy_worker") => GatesPassed
    /\ dp.pc = "done" =>
          /\ Invoked("deploy_worker") <=> GatesPassed
          /\ ~GatesPassed =>
                /\ ~dp.raised
                /\ ~dp.deployed
                /\ "error" \in DOMAIN dp.returned
    /\ Len(dp.asked) >= 1 /\ OutOfService(dp.asked[1]) =>
          /\ "score" \in DOMAIN dp.trust /\ dp.trust.score = 100
          /\ dp.pc = "done" => Invoked("verify_compliance")
    /\ Len(dp.asked) >= 2 /\ OutOfService(dp.asked[2]) =>
          /\ "compliant" \in DOMAIN dp.compliance /\ dp.compliance.compliant
          /\ dp.pc = "done" => Invoked("deploy_worker")
    /\ dp.pc = "done" /\ dp.deployed /\ ~DeploymentId(dp.result).raised =>
          /\ dp.steps = StepOrder
          /\ ~dp.raised
          /\ "deployment" \in DOMAIN dp.returned
          /\ dp.returned.deployment = dp.result
          /\ "error" \notin DOMAIN dp.returned

\* A deployment made and returned with all four services out.
C29_Witness ==
    /\ dp.pc = "done"
    /\ dp.deployed
    /\ dp.steps = StepOrder
    /\ \A n \in {1, 2, 4, 5} : OutOfService(dp.asked[n])
    /\ "deployment" \in DOMAIN dp.returned
    /\ dp.returned.deployment = dp.result
    /\ dp.returned.case_link.status = "offline"


(***************************************************************************)
(* Properties of NeonDatabase                                              *)
(***************************************************************************)
\* C30: single connection pool. Under every interleaving of execute, fetch,
\* fetchrow and disconnect calls starting from no pool, a pool that has been
\* created and not closed is the one the object holds, so there is never more
\* than one; a query runs only on a pool; and a query whose connect failed or
\* did nothing ends with 500 'Database unavailable'.
C30_SinglePool ==
    /\ db.open \subseteq {db.pool}
    /\ Cardinality(db.open) <= 1
    /\ \A i \in Callers :
          /\ db.co[i].pc = "acquiring" => db.co[i].ref /= 0
          /\ db.co[i].result = "rows" => db.co[i].ref /= 0
          /\ db.co[i].pc = "done" /\ db.co[i].kind /= "disconnect" /\ db.co[i].ref = 0 =>
                db.co[i].result = "500 Database unavailable"
====
